---- MODULE Spec2Model ----
(***************************************************************************)
(* Model of the zenavif-parse AVIF parser (src/src/lib.rs).                *)
(*                                                                         *)
(* The zero-copy parser (AvifParser) and the eager reader                  *)
(* (read_avif_with_config) are modelled as state machines over a file      *)
(* given as its sequence of top-level boxes; the accessors of a built      *)
(* AvifParser are modelled as operations on the parser record.             *)
(*                                                                         *)
(* Integers: TLC has no 64-bit integers, so u64/usize are scaled to the    *)
(* range 0..U64_MAX with the same modular arithmetic (Wrap64); usize is    *)
(* taken to be 64 bits wide.  An unchecked `+` that overflows panics when  *)
(* the crate is built with overflow checks (the dev/test profile) and      *)
(* wraps otherwise (the release profile): overflow_checks is the build's   *)
(* choice.                                                                 *)
(***************************************************************************)
EXTENDS Integers, Sequences, FiniteSets, TLC

VARIABLES
    overflow_checks,   \* build profile: TRUE = overflow panics, FALSE = wraps
    input,             \* the file: its top-level boxes, in order
    config,            \* DecodeConfig
    stop,              \* the Stop token: how many checks it passes before cancelling
    api,               \* entry point: read_avif_with_config or AvifParser::from_*_with_config
    pc,                \* position inside the entry point
    iter,              \* BoxIter: number of top-level boxes already taken
    meta,              \* Option<AvifInternalMeta> of the parse pass
    mdats,             \* mdat_bounds (parser) / mdats (eager) of the parse pass
    animation_data,    \* Option<(timescale, SampleTable, loop_count)> of the parse pass
    tracker,           \* ResourceTracker
    tiles_with_index,  \* build: the (to_item_id, reference_index) list being collected
    context,           \* read_avif_with_config: the AvifData being filled
    parser,            \* Option<AvifParser>: the built parser
    result,            \* Option<Result>: what the entry point returned
    call,              \* the last accessor call made on the parser
    ret,               \* what that call returned
    frames_iter        \* Option<FrameIterator>: the iterator frames() returned

vars == <<overflow_checks, input, config, stop, api, pc, iter, meta, mdats,
          animation_data, tracker, tiles_with_index, context, parser, result, call, ret,
          frames_iter>>

(***************************************************************************)
(* Bounds of the model                                                     *)
(***************************************************************************)
\* u64::MAX, scaled down
U64_MAX == 63
\* length of the source buffer of a built parser
RawLen == 40
\* most extents per item
MaxExtents == 2
\* u32::MAX, scaled down
U32_MAX == 255
\* most samples (frames) of a sample table
MaxSamples == 3

(***************************************************************************)
(* Option and Result                                                       *)
(***************************************************************************)
None == << >>
Some(x) == << x >>
IsSome(o) == Len(o) = 1
Get(o) == o[1]

Ok(v) == [tag |-> "Ok", kind |-> "", msg |-> "", val |-> << v >>]
Err(kind, msg) == [tag |-> "Err", kind |-> kind, msg |-> msg, val |-> << >>]
\* the thread panicked: the call returns nothing
Panic(msg) == [tag |-> "Panic", kind |-> "panic", msg |-> msg, val |-> << >>]
IsOk(r) == r.tag = "Ok"
Val(r) == r.val[1]

InvalidData(msg) == Err("InvalidData", msg)
Unsupported(msg) == Err("Unsupported", msg)
ResourceLimitExceeded(msg) == Err("ResourceLimitExceeded", msg)
Stopped(reason) == Err("Stopped", reason)
UnexpectedEOF == Err("UnexpectedEOF", "EOF")

Min(a, b) == IF a < b THEN a ELSE b
Max(a, b) == IF a > b THEN a ELSE b

(***************************************************************************)
(* Integer arithmetic                                                      *)
(***************************************************************************)
Wrap64(x) == x % (U64_MAX + 1)
\* `as u32` of a wider value
Wrap32(x) == x % (U32_MAX + 1)
\* mutation: the sum wraps
wrapping_add(a, b) == Some(Wrap64(a + b))
\* u64::checked_add: None on overflow
checked_add(a, b) == IF a + b > U64_MAX THEN None ELSE Some(a + b)

(***************************************************************************)
(* Box header sizes                                                        *)
(***************************************************************************)
MIN_SIZE == 8
\* the payload length recorded for a size-0 box ("runs to end of file"):
\* size = u64::MAX, content limit = size - header offset
ToEofLength == U64_MAX - MIN_SIZE
\* smallest file offset an mdat payload can have: ftyp header, major brand
\* and minor version, then the mdat header
MinMdatOffset == MIN_SIZE + 8 + MIN_SIZE

(***************************************************************************)
(* Byte buffers.  The bytes of the source buffer are tagged with their     *)
(* position, so that a slice determines the range it was taken from; the   *)
(* bytes of an idat box are tagged apart from them.                        *)
(***************************************************************************)
RawBytes(n) == [i \in 1..n |-> i - 1]
IdatBytes(n) == [i \in 1..n |-> 1000 + i - 1]

\* <[u8]>::get(start..end)
slice_get(bytes, start, end) ==
    IF start <= end /\ end <= Len(bytes)
    THEN Some(SubSeq(bytes, start + 1, end))
    ELSE None

Borrowed(bytes) == [cow |-> "Borrowed", bytes |-> bytes]
Owned(bytes) == [cow |-> "Owned", bytes |-> bytes]

(***************************************************************************)
(* Extents                                                                 *)
(***************************************************************************)
WithLength(s, e) == [kind |-> "WithLength", start |-> s, end |-> e]
ToEnd(s) == [kind |-> "ToEnd", start |-> s, end |-> s]
ItemExtents(cm, extents) == [construction_method |-> cm, extents |-> extents]
MdatBounds(offset, length) == [offset |-> offset, length |-> length]

\* the mdat loop of extent_byte_range for a ToEnd extent, from mdat i on
RECURSIVE to_end_range(_, _, _)
to_end_range(p, file_offset, i) ==
    IF i > Len(p.mdat_bounds)
    THEN Ok(<<file_offset, Len(p.raw.bytes)>>)
    ELSE LET mdat == p.mdat_bounds[i]
             sum == mdat.offset + mdat.length
         IN IF file_offset >= mdat.offset
            THEN IF sum > U64_MAX /\ overflow_checks
                 THEN Panic("attempt to add with overflow")
                 ELSE IF file_offset < Wrap64(sum)
                      THEN Ok(<<file_offset, Wrap64(sum)>>)
                      ELSE to_end_range(p, file_offset, i + 1)
            ELSE to_end_range(p, file_offset, i + 1)

extent_byte_range(p, extent) ==
    IF extent.kind = "WithLength"
    THEN IF extent.end < extent.start
         THEN InvalidData("extent range start > end")
         ELSE LET end == checked_add(extent.start, extent.end - extent.start)
              IN IF IsSome(end)
                 THEN Ok(<<extent.start, Get(end)>>)
                 ELSE InvalidData("extent end overflow")
    ELSE to_end_range(p, extent.start, 1)

\* the multi-extent loop of resolve_file_extents, from extent i on
RECURSIVE concat_file_extents(_, _, _, _)
concat_file_extents(p, extents, i, data) ==
    IF i > Len(extents)
    THEN Ok(Owned(data))
    ELSE LET r == extent_byte_range(p, extents[i])
         IN IF ~IsOk(r)
            THEN r
            ELSE LET s == slice_get(p.raw.bytes, Val(r)[1], Val(r)[2])
                 IN IF IsSome(s)
                    THEN concat_file_extents(p, extents, i + 1, data \o Get(s))
                    ELSE InvalidData("extent out of bounds in raw buffer")

resolve_file_extents(p, extents) ==
    IF Len(extents) = 1
    THEN LET r == extent_byte_range(p, extents[1])
         IN IF ~IsOk(r)
            THEN r
            ELSE LET s == slice_get(p.raw.bytes, Val(r)[1], Val(r)[2])
                 IN IF IsSome(s)
                    THEN Ok(Borrowed(Get(s)))
                    ELSE InvalidData("extent out of bounds in raw buffer")
    ELSE concat_file_extents(p, extents, 1, << >>)

\* one extent of resolve_idat_extents
idat_slice(idat_data, extent) ==
    IF extent.kind = "WithLength"
    THEN slice_get(idat_data, extent.start, extent.start + (extent.end - extent.start))
    ELSE slice_get(idat_data, extent.start, Len(idat_data))

RECURSIVE concat_idat_extents(_, _, _, _)
concat_idat_extents(idat_data, extents, i, data) ==
    IF i > Len(extents)
    THEN Ok(Owned(data))
    ELSE LET s == idat_slice(idat_data, extents[i])
         IN IF IsSome(s)
            THEN concat_idat_extents(idat_data, extents, i + 1, data \o Get(s))
            ELSE InvalidData("idat extent out of bounds")

resolve_idat_extents(p, extents) ==
    IF ~IsSome(p.idat)
    THEN InvalidData("idat box missing but construction_method is Idat")
    ELSE IF Len(extents) = 1
         THEN LET s == idat_slice(Get(p.idat), extents[1])
              IN IF IsSome(s)
                 THEN Ok(Borrowed(Get(s)))
                 ELSE InvalidData("idat extent out of bounds")
         ELSE concat_idat_extents(Get(p.idat), extents, 1, << >>)

resolve_item(p, item) ==
    CASE item.construction_method = "Idat" -> resolve_idat_extents(p, item.extents)
      [] item.construction_method = "File" -> resolve_file_extents(p, item.extents)
      [] OTHER -> Unsupported("construction_method 'item' not supported")

primary_data(p) == resolve_item(p, p.primary)
alpha_data(p) == IF IsSome(p.alpha) THEN Some(resolve_item(p, Get(p.alpha))) ELSE None
tile_data(p, index) ==
    IF index < Len(p.tiles)
    THEN resolve_item(p, p.tiles[index + 1])
    ELSE InvalidData("tile index out of bounds")

(***************************************************************************)
(* Accessors of a built AvifParser                                         *)
(***************************************************************************)
AvifParser(raw, mdat_bounds, idat, primary, alpha, grid_config, tiles, anim, premult) ==
    [raw |-> raw, mdat_bounds |-> mdat_bounds, idat |-> idat, primary |-> primary,
     alpha |-> alpha, grid_config |-> grid_config, tiles |-> tiles,
     animation_data |-> anim, premultiplied_alpha |-> premult]

NoCall == [op |-> "none", index |-> 0]
Call(op, index) == [op |-> op, index |-> index]

\* the variables of the parse pass, which a built parser no longer has, and
\* the frame iterator, which the accessors of the parser leave alone
ParsePassUnchanged ==
    UNCHANGED <<overflow_checks, input, config, stop, api, pc, iter, meta, mdats,
                animation_data, tracker, tiles_with_index, context, parser, result,
                frames_iter>>

PrimaryData ==
    /\ pc = "done" /\ IsSome(parser)
    /\ call' = Call("primary_data", 0)
    /\ ret' = Some(primary_data(Get(parser)))
    /\ ParsePassUnchanged

AlphaData ==
    /\ pc = "done" /\ IsSome(parser)
    /\ call' = Call("alpha_data", 0)
    /\ ret' = alpha_data(Get(parser))
    /\ ParsePassUnchanged

TileData ==
    /\ pc = "done" /\ IsSome(parser)
    /\ \E index \in 0..Len(Get(parser).tiles) :
          /\ call' = Call("tile_data", index)
          /\ ret' = Some(tile_data(Get(parser), index))
    /\ ParsePassUnchanged

(***************************************************************************)
(* SpecExtent: item data access on built parsers.  The parsers are those   *)
(* build() produces: every bounded extent has start < end <= u64::MAX      *)
(* (read_iloc), every recorded mdat lies inside the buffer or is a size-0  *)
(* box recorded with the length ToEofLength, and mdat payloads follow the  *)
(* headers that precede them.                                              *)
(***************************************************************************)
\* where a second mdat's payload starts when the first has length n
SecondMdatOffset(n) == MinMdatOffset + n + MIN_SIZE

MdatLayouts ==
    { << >>,
      << MdatBounds(MinMdatOffset, 4) >>,
      << MdatBounds(MinMdatOffset, 3), MdatBounds(SecondMdatOffset(3), 3) >>,
      << MdatBounds(MinMdatOffset, ToEofLength) >>,
      << MdatBounds(MinMdatOffset, 3), MdatBounds(SecondMdatOffset(3), ToEofLength) >> }

ExtentStarts ==
    {0, MinMdatOffset, MinMdatOffset + 2, SecondMdatOffset(3), RawLen - 1, RawLen + 1}
ExtentLengths == {1, 3}

ExtentRanges ==
    { ToEnd(s) : s \in ExtentStarts } \cup
    { WithLength(s, s + n) : s \in ExtentStarts, n \in ExtentLengths }

ValidExtentRanges == { e \in ExtentRanges : e.end <= U64_MAX }

ExtentLists ==
    UNION { [1..n -> ValidExtentRanges] : n \in 1..MaxExtents }

DefaultItem == ItemExtents("File", << WithLength(MinMdatOffset, MinMdatOffset + 1) >>)

ExtentParsers ==
    { AvifParser([cow |-> c, bytes |-> RawBytes(RawLen)], m, None,
                 IF role = "primary" THEN ItemExtents("File", x) ELSE DefaultItem,
                 IF role = "alpha" THEN Some(ItemExtents("File", x)) ELSE None,
                 None,
                 IF role = "tile" THEN << DefaultItem, ItemExtents("File", x) >> ELSE << >>,
                 None, FALSE) :
        c \in {"Borrowed"}, m \in MdatLayouts, x \in ExtentLists,
        role \in {"primary", "alpha", "tile"} }

UnlimitedConfig ==
    [peak_memory_limit |-> None, total_megapixels_limit |-> None,
     max_animation_frames |-> None, max_grid_tiles |-> None, lenient |-> FALSE]
NewTracker == [current_memory |-> 0, peak_memory |-> 0]
\* a Stop token: check() succeeds `cancel_after` times and then returns
\* Cancelled; Unstoppable never does
Unstoppable == [cancel_after |-> None, checks |-> 0]
CancelAfter(n) == [cancel_after |-> Some(n), checks |-> 0]

\* the parse pass has returned the parser p
Built(p) ==
    /\ input = << >>
    /\ config = UnlimitedConfig
    /\ stop = Unstoppable
    /\ api = "from_bytes_with_config"
    /\ pc = "done"
    /\ iter = 0
    /\ meta = None
    /\ mdats = << >>
    /\ animation_data = None
    /\ tracker = NewTracker
    /\ tiles_with_index = << >>
    /\ context = None
    /\ parser = Some(p)
    /\ result = Some(Ok("parser"))
    /\ call = NoCall
    /\ ret = None
    /\ frames_iter = None

InitExtent ==
    /\ overflow_checks \in BOOLEAN
    /\ \E p \in ExtentParsers : Built(p)

NextExtent == PrimaryData \/ AlphaData \/ TileData

SpecExtent == InitExtent /\ [][NextExtent]_vars

\* the item the last call resolved, if it resolved one
CalledItem ==
    LET p == Get(parser)
    IN CASE call.op = "primary_data" -> Some(p.primary)
         [] call.op = "alpha_data" -> p.alpha
         [] call.op = "tile_data" /\ call.index < Len(p.tiles) -> Some(p.tiles[call.index + 1])
         [] OTHER -> None

\* the source-buffer range [start, end) an extent denotes: a bounded extent
\* its own range; an extent without length runs to the end of the payload of
\* the mdat containing its start (the end of the buffer for a size-0 mdat),
\* and to the end of the buffer when no mdat contains it
IsToEof(m) == m.length = ToEofLength
MdatContains(m, off) ==
    m.offset <= off /\ (IsToEof(m) \/ off < m.offset + m.length)
RangeOf(p, e) ==
    IF e.kind = "WithLength"
    THEN <<e.start, e.end>>
    ELSE LET holders == { i \in 1..Len(p.mdat_bounds) : MdatContains(p.mdat_bounds[i], e.start) }
         IN IF holders = {} \/ IsToEof(p.mdat_bounds[CHOOSE i \in holders : \A j \in holders : i <= j])
            THEN <<e.start, Len(p.raw.bytes)>>
            ELSE LET m == p.mdat_bounds[CHOOSE i \in holders : \A j \in holders : i <= j]
                 IN <<e.start, m.offset + m.length>>
RangeInside(p, r) == r[1] <= r[2] /\ r[2] <= Len(p.raw.bytes)

RECURSIVE ConcatRanges(_, _, _)
ConcatRanges(p, extents, i) ==
    IF i > Len(extents)
    THEN << >>
    ELSE LET r == RangeOf(p, extents[i])
         IN SubSeq(p.raw.bytes, r[1] + 1, r[2]) \o ConcatRanges(p, extents, i + 1)

\* C1: for an item with File construction, primary_data(), alpha_data() and
\* tile_data(i) return the concatenation, in declaration order, of the source
\* ranges of the item's extents, borrowed exactly when there is one extent and
\* owned when there are more; if a range is not wholly inside the buffer the
\* call returns InvalidData.
C1_FileExtentsConcatenated ==
    (IsSome(parser) /\ call.op # "none" /\ IsSome(CalledItem)
        /\ Get(CalledItem).construction_method = "File") =>
    LET p == Get(parser)
        ext == Get(CalledItem).extents
    IN /\ IsSome(ret)
       /\ IF \A i \in 1..Len(ext) : RangeInside(p, RangeOf(p, ext[i]))
          THEN Get(ret) = Ok([cow |-> IF Len(ext) = 1 THEN "Borrowed" ELSE "Owned",
                              bytes |-> ConcatRanges(p, ext, 1)])
          ELSE Get(ret).tag = "Err" /\ Get(ret).kind = "InvalidData"

(***************************************************************************)
(* Animation frames                                                        *)
(***************************************************************************)
TimeToSampleEntry(count, delta) == [sample_count |-> count, sample_delta |-> delta]
SampleToChunkEntry(first, per) == [first_chunk |-> first, samples_per_chunk |-> per]
SampleTable(stts, stsc, stsz, stco) ==
    [time_to_sample |-> stts, sample_to_chunk |-> stsc,
     sample_sizes |-> stsz, chunk_offsets |-> stco]
AnimationParserData(timescale, st, loops) ==
    [media_timescale |-> timescale, sample_table |-> st, loop_count |-> loops]

MILLIS == 1000

RECURSIVE frame_duration_from(_, _, _, _, _)
frame_duration_from(st, timescale, index, i, current_sample) ==
    IF i > Len(st.time_to_sample)
    THEN 0
    ELSE LET entry == st.time_to_sample[i]
         IN IF current_sample + entry.sample_count > index
            THEN IF timescale > 0
                 THEN Wrap32((entry.sample_delta * MILLIS) \div timescale)
                 ELSE 0
            ELSE frame_duration_from(st, timescale, index, i + 1,
                                     current_sample + entry.sample_count)

calculate_frame_duration(st, timescale, index) ==
    Ok(frame_duration_from(st, timescale, index, 1, 0))

\* the sizes of the sample_in_chunk samples before sample `index` in its
\* chunk (lines 1185-1191); prev_idx is never below 0 and always a sample
RECURSIVE offset_in_chunk(_, _, _, _)
offset_in_chunk(st, index, sample_in_chunk, s) ==
    IF s >= sample_in_chunk
    THEN 0
    ELSE LET prev_idx == Max(index - (sample_in_chunk - s), 0)
         IN (IF prev_idx < Len(st.sample_sizes) THEN st.sample_sizes[prev_idx + 1] ELSE 0)
            + offset_in_chunk(st, index, sample_in_chunk, s + 1)

\* the loops of calculate_sample_location: sample_to_chunk entry map_idx
\* (0-based), chunk chunk_idx (1-based) of it, current_sample samples passed.
\* The innermost loop over the samples of one chunk is taken in one step.
RECURSIVE chunk_loop(_, _, _, _, _)
chunk_loop(st, index, map_idx, chunk_idx, current_sample) ==
    IF map_idx >= Len(st.sample_to_chunk)
    THEN InvalidData("sample not found in chunk table")
    ELSE LET entry == st.sample_to_chunk[map_idx + 1]
             next_first_chunk ==
                 IF map_idx + 1 < Len(st.sample_to_chunk)
                 THEN st.sample_to_chunk[map_idx + 2].first_chunk
                 ELSE U32_MAX
             next_entry ==
                 IF map_idx + 1 < Len(st.sample_to_chunk)
                 THEN chunk_loop(st, index, map_idx + 1,
                                 st.sample_to_chunk[map_idx + 2].first_chunk, current_sample)
                 ELSE InvalidData("sample not found in chunk table")
         IN IF chunk_idx >= next_first_chunk
            THEN next_entry
            ELSE IF chunk_idx = 0 \/ chunk_idx > Len(st.chunk_offsets)
                 THEN next_entry
                 ELSE IF index < current_sample + entry.samples_per_chunk
                      THEN LET chunk_offset == st.chunk_offsets[chunk_idx]
                               sum == chunk_offset
                                      + offset_in_chunk(st, index, index - current_sample, 0)
                           IN IF sum > U64_MAX /\ overflow_checks
                              THEN Panic("attempt to add with overflow")
                              ELSE Ok(<<Wrap64(sum), st.sample_sizes[index + 1]>>)
                      ELSE chunk_loop(st, index, map_idx, chunk_idx + 1,
                                      current_sample + entry.samples_per_chunk)

calculate_sample_location(st, index) ==
    IF index >= Len(st.sample_sizes)
    THEN InvalidData("sample index out of bounds")
    ELSE IF Len(st.sample_to_chunk) = 0
         THEN InvalidData("sample not found in chunk table")
         ELSE chunk_loop(st, index, 0, st.sample_to_chunk[1].first_chunk, 0)

FrameRef(data, duration_ms) == [data |-> data, duration_ms |-> duration_ms]

resolve_frame(p, index) ==
    IF ~IsSome(p.animation_data)
    THEN InvalidData("not an animated AVIF")
    ELSE LET anim == Get(p.animation_data)
         IN IF index >= Len(anim.sample_table.sample_sizes)
            THEN InvalidData("frame index out of bounds")
            ELSE LET duration_ms == calculate_frame_duration(anim.sample_table,
                                                             anim.media_timescale, index)
                     loc == calculate_sample_location(anim.sample_table, index)
                 IN IF ~IsOk(loc)
                    THEN loc
                    ELSE LET start == Val(loc)[1]
                             end == checked_add(start, Val(loc)[2])
                         IN IF ~IsSome(end)
                            THEN InvalidData("frame end overflow")
                            ELSE LET slice == slice_get(p.raw.bytes, start, Get(end))
                                 IN IF IsSome(slice)
                                    THEN Ok(FrameRef(Borrowed(Get(slice)), Val(duration_ms)))
                                    ELSE InvalidData("frame not found in raw buffer")

frame(p, index) == resolve_frame(p, index)

animation_info(p) ==
    IF IsSome(p.animation_data)
    THEN Some([frame_count |-> Len(Get(p.animation_data).sample_table.sample_sizes),
               loop_count |-> Get(p.animation_data).loop_count])
    ELSE None

\* mutation: frame() hands the sample table over and leaves the parser
\* without animation
FrameConsuming ==
    /\ pc = "done" /\ IsSome(parser)
    /\ \E index \in 0..MaxSamples :
          /\ call' = Call("frame", index)
          /\ ret' = Some(frame(Get(parser), index))
    /\ parser' = Some([Get(parser) EXCEPT !.animation_data = None])
    /\ UNCHANGED <<overflow_checks, input, config, stop, api, pc, iter, meta, mdats,
                   animation_data, tracker, tiles_with_index, context, result, frames_iter>>
Frame ==
    /\ pc = "done" /\ IsSome(parser)
    /\ \E index \in 0..MaxSamples :
          /\ call' = Call("frame", index)
          /\ ret' = Some(frame(Get(parser), index))
    /\ ParsePassUnchanged

\* FrameIterator: the parser it borrows is the built parser
FrameIterator(index, count) == [index |-> index, count |-> count]
frames_iterator(p) ==
    FrameIterator(0, IF IsSome(animation_info(p)) THEN Get(animation_info(p)).frame_count
                     ELSE 0)
\* FrameIterator::next: the item returned and the iterator afterwards; a
\* panic of frame() leaves next() before the index is advanced
next(it, p) ==
    IF it.index >= it.count
    THEN [item |-> None, it |-> it]
    ELSE LET res == frame(p, it.index)
         IN [item |-> Some(res),
             it |-> IF res.tag = "Panic" THEN it ELSE [it EXCEPT !.index = @ + 1]]
\* size_hint() is (len, Some(len))
len(it) == IF it.count > it.index THEN it.count - it.index ELSE 0
size_hint(it) == << len(it), Some(len(it)) >>

Frames ==
    /\ pc = "done" /\ IsSome(parser)
    /\ frames_iter' = Some(frames_iterator(Get(parser)))
    /\ call' = Call("frames", 0)
    /\ ret' = None
    /\ UNCHANGED <<overflow_checks, input, config, stop, api, pc, iter, meta, mdats,
                   animation_data, tracker, tiles_with_index, context, parser, result>>

\* call.index is the index of the iterator before the call
FramesNext ==
    /\ pc = "done" /\ IsSome(parser) /\ IsSome(frames_iter)
    /\ frames_iter' = Some(next(Get(frames_iter), Get(parser)).it)
    /\ call' = Call("next", Get(frames_iter).index)
    /\ ret' = Some(next(Get(frames_iter), Get(parser)).item)
    /\ UNCHANGED <<overflow_checks, input, config, stop, api, pc, iter, meta, mdats,
                   animation_data, tracker, tiles_with_index, context, parser, result>>

(***************************************************************************)
(* SpecFrame: frame access on built parsers of animated files              *)
(***************************************************************************)
SampleSizeLists == UNION { [1..n -> {1, 2}] : n \in 0..MaxSamples }
SampleToChunkEntries ==
    { SampleToChunkEntry(f, n) : f \in 0..2, n \in 1..2 }
SampleToChunkLists == UNION { [1..n -> SampleToChunkEntries] : n \in 0..2 }
ChunkOffsets == {0, MinMdatOffset, RawLen - 2, U64_MAX}
ChunkOffsetLists == UNION { [1..n -> ChunkOffsets] : n \in 0..2 }

FrameParsers ==
    { AvifParser([cow |-> "Borrowed", bytes |-> RawBytes(RawLen)],
                 << MdatBounds(MinMdatOffset, RawLen - MinMdatOffset) >>, None,
                 DefaultItem, None, None, << >>,
                 Some(AnimationParserData(MILLIS,
                        SampleTable(<< TimeToSampleEntry(MaxSamples, 100) >>, stsc, stsz, stco),
                        0)),
                 FALSE) :
        stsc \in SampleToChunkLists, stsz \in SampleSizeLists, stco \in ChunkOffsetLists }

\* parsers whose samples all resolve and whose timing varies
SampleDeltas == {0, 1, 100, U32_MAX}
MediaTimescales == {0, 1, 2, MILLIS, U32_MAX}
TimeToSampleEntries == { TimeToSampleEntry(n, d) : n \in {1, 2}, d \in SampleDeltas }
TimeToSampleLists == UNION { [1..n -> TimeToSampleEntries] : n \in 0..2 }
TimedParsers ==
    { AvifParser([cow |-> "Borrowed", bytes |-> RawBytes(RawLen)],
                 << MdatBounds(MinMdatOffset, RawLen - MinMdatOffset) >>, None,
                 DefaultItem, None, None, << >>,
                 Some(AnimationParserData(timescale,
                        SampleTable(stts, << SampleToChunkEntry(1, 1) >>,
                                    [i \in 1..MaxSamples |-> 1],
                                    [i \in 1..MaxSamples |-> MinMdatOffset + i - 1]),
                        0)),
                 FALSE) :
        timescale \in MediaTimescales, stts \in TimeToSampleLists }

InitFrame ==
    /\ overflow_checks \in BOOLEAN
    /\ \E p \in FrameParsers \cup TimedParsers : Built(p)

NextFrame == Frame

SpecFrame == InitFrame /\ [][NextFrame]_vars

\* The sample table as the ISO format reads it: chunks are numbered from 1,
\* first_chunk does not decrease, and the last entry with first_chunk <= c
\* governs chunk c.
WellFormedChunkMap(st) ==
    /\ \A i \in 1..Len(st.sample_to_chunk) : st.sample_to_chunk[i].first_chunk >= 1
    /\ \A i \in 1..(Len(st.sample_to_chunk) - 1) :
          st.sample_to_chunk[i].first_chunk <= st.sample_to_chunk[i + 1].first_chunk
Governing(st, c) ==
    LET js == { j \in 1..Len(st.sample_to_chunk) : st.sample_to_chunk[j].first_chunk <= c }
    IN IF js = {} THEN 0 ELSE CHOOSE j \in js : \A k \in js : k <= j
SamplesInChunk(st, c) ==
    IF Governing(st, c) = 0 THEN 0
    ELSE st.sample_to_chunk[Governing(st, c)].samples_per_chunk
RECURSIVE FirstSampleOf(_, _)
FirstSampleOf(st, c) ==
    IF c <= 1 THEN 0 ELSE FirstSampleOf(st, c - 1) + SamplesInChunk(st, c - 1)
RECURSIVE SumSizes(_, _, _)
SumSizes(st, from, to) ==
    IF from >= to THEN 0 ELSE st.sample_sizes[from + 1] + SumSizes(st, from + 1, to)
\* the chunks listed in chunk_offsets that hold sample k
ChunksHolding(st, k) ==
    { c \in 1..Len(st.chunk_offsets) :
        FirstSampleOf(st, c) <= k /\ k < FirstSampleOf(st, c) + SamplesInChunk(st, c) }

\* C2: frame(k).data is the range [off, off + sample_sizes[k]) with off the
\* offset of k's chunk plus the sizes of the samples before k in that chunk,
\* computed without wrap-around; when the chunk is not in chunk_offsets, the
\* sample is not covered, off does not fit in 64 bits or the range runs past
\* the buffer, the result is InvalidData.
C2_FrameLocation ==
    (IsSome(parser) /\ call.op = "frame" /\ IsSome(Get(parser).animation_data)
        /\ call.index < Len(Get(Get(parser).animation_data).sample_table.sample_sizes)
        /\ WellFormedChunkMap(Get(Get(parser).animation_data).sample_table)) =>
    LET p == Get(parser)
        st == Get(p.animation_data).sample_table
        k == call.index
        cs == ChunksHolding(st, k)
        c == CHOOSE x \in cs : TRUE
        off == st.chunk_offsets[c] + SumSizes(st, FirstSampleOf(st, c), k)
        size == st.sample_sizes[k + 1]
    IN /\ IsSome(ret)
       /\ IF cs # {} /\ off <= U64_MAX /\ off + size <= Len(p.raw.bytes)
          THEN /\ IsOk(Get(ret))
               /\ Val(Get(ret)).data = Borrowed(SubSeq(p.raw.bytes, off + 1, off + size))
          ELSE Get(ret).tag = "Err" /\ Get(ret).kind = "InvalidData"

(***************************************************************************)
(* The meta box.  A box is given by its name and the fields its reader     *)
(* takes from it; the child boxes of a container are a sequence.           *)
(***************************************************************************)
PitmBox(version, item_id) == [name |-> "pitm", version |-> version, item_id |-> item_id]
InfeBox(version, item_id, item_type) ==
    [name |-> "infe", version |-> version, item_id |-> item_id,
     item_protection_index |-> 0, item_type |-> item_type]
IinfBox(version, children) == [name |-> "iinf", version |-> version, children |-> children]
IlocExtent(offset, length) == [extent_offset |-> offset, extent_length |-> length]
IlocItem(item_id, method, base_offset, extents) ==
    [item_id |-> item_id, construction_method |-> method, data_reference_index |-> 0,
     base_offset |-> base_offset, extents |-> extents]
\* the fields of an iloc box are FIELD_BYTES wide unless Sized says otherwise
FIELD_BYTES == 8
IlocBox(version, items) ==
    [name |-> "iloc", version |-> version, offset_size |-> FIELD_BYTES,
     length_size |-> FIELD_BYTES, base_offset_size |-> FIELD_BYTES, items |-> items,
     remaining |-> 0]
SizedIlocBox(b, offset_size, length_size, base_offset_size) ==
    [b EXCEPT !.offset_size = offset_size, !.length_size = length_size,
              !.base_offset_size = base_offset_size]
RefBox(item_type, from_item_id, to_item_ids) ==
    [name |-> item_type, from_item_id |-> from_item_id, to_item_ids |-> to_item_ids]
IrefBox(version, children) == [name |-> "iref", version |-> version, children |-> children]
IspeBox(width, height) == [name |-> "ispe", width |-> width, height |-> height]
GridBox(version, rows, columns, width, height) ==
    [name |-> "grid", version |-> version, rows |-> rows, columns |-> columns,
     output_width |-> width, output_height |-> height]
AuxcBox(version, aux_data) == [name |-> "auxC", version |-> version, aux_data |-> aux_data]
PixiBox(version, channels) == [name |-> "pixi", version |-> version, channels |-> channels]
IpcoBox(children) == [name |-> "ipco", children |-> children]
Association(item_id, property_index) == [item_id |-> item_id, property_index |-> property_index]
IpmaBox(associations) == [name |-> "ipma", associations |-> associations]
IprpBox(children) == [name |-> "iprp", children |-> children]
IdatBox(length) == [name |-> "idat", length |-> length]
OtherBox(name) == [name |-> name]
MetaBox(version, children) ==
    [name |-> "meta", version |-> version, children |-> children]

ALPHA_URN == "urn:mpeg:mpegB:cicp:systems:auxiliary:alpha"
NUL == "\\0"

ItemInfoEntry(item_id, item_type) == [item_id |-> item_id, item_type |-> item_type]
SingleItemTypeReferenceBox(item_type, from_item_id, to_item_id, reference_index) ==
    [item_type |-> item_type, from_item_id |-> from_item_id,
     to_item_id |-> to_item_id, reference_index |-> reference_index]
ItemLocationBoxItem(item_id, method, extents) ==
    [item_id |-> item_id, construction_method |-> method, extents |-> extents]
GridConfig(rows, columns, width, height) ==
    [rows |-> rows, columns |-> columns, output_width |-> width, output_height |-> height]
\* ItemProperty: one record shape for all variants
ItemProperty(kind, grid, width, height, aux_data) ==
    [kind |-> kind, grid |-> grid, width |-> width, height |-> height, aux_data |-> aux_data]
PropImageGrid(g) == ItemProperty("ImageGrid", Some(g), 0, 0, << >>)
PropImageSpatialExtents(w, h) == ItemProperty("ImageSpatialExtents", None, w, h, << >>)
PropAuxiliaryType(aux_data) == ItemProperty("AuxiliaryType", None, 0, 0, aux_data)
PropUnsupported == ItemProperty("Unsupported", None, 0, 0, << >>)
\* ItemProperty::Channels: the bit depths of the channels
PropChannels(channels) ==
    [kind |-> "Channels", grid |-> None, width |-> 0, height |-> 0, aux_data |-> << >>,
     channels |-> channels]
AssociatedProperty(item_id, property) == [item_id |-> item_id, property |-> property]

read_pitm(b) ==
    IF b.version \in {0, 1} THEN Ok(b.item_id) ELSE Unsupported("unsupported pitm version")

read_infe(b) ==
    IF b.version \notin {2, 3}
    THEN Unsupported("unsupported version in 'infe' box")
    ELSE IF b.item_protection_index # 0
         THEN Unsupported("protected items (infe.item_protection_index != 0) are not supported")
         ELSE Ok(ItemInfoEntry(b.item_id, b.item_type))

RECURSIVE read_iinf_entries(_, _, _)
read_iinf_entries(b, i, item_infos) ==
    IF i > Len(b.children)
    THEN Ok(item_infos)
    ELSE IF b.children[i].name # "infe"
         THEN InvalidData("iinf box should contain only infe boxes")
         ELSE LET e == read_infe(b.children[i])
              IN IF IsOk(e)
                 THEN read_iinf_entries(b, i + 1, Append(item_infos, Val(e)))
                 ELSE e

read_iinf(b) ==
    IF b.version \in {0, 1}
    THEN read_iinf_entries(b, 1, << >>)
    ELSE Unsupported("unsupported iinf version")

\* IlocFieldSize::try_from
IlocFieldSizes == {0, 4, 8}
\* BitReader::read_u64(size.to_bits()): a field of width 0 holds no bits and
\* reads as 0
read_u64(size, field) == IF size = 0 THEN 0 ELSE field

RECURSIVE read_iloc_extents(_, _, _, _)
read_iloc_extents(b, item, i, extents) ==
    IF i > Len(item.extents)
    THEN Ok(extents)
    ELSE LET e == item.extents[i]
             extent_offset == read_u64(b.offset_size, e.extent_offset)
             extent_length == read_u64(b.length_size, e.extent_length)
             start == checked_add(read_u64(b.base_offset_size, item.base_offset),
                                  extent_offset)
         IN IF ~IsSome(start)
            THEN InvalidData("offset calculation overflow")
            ELSE IF extent_length = 0
                 THEN read_iloc_extents(b, item, i + 1, Append(extents, ToEnd(Get(start))))
                 ELSE LET end == checked_add(Get(start), extent_length)
                      IN IF ~IsSome(end)
                         THEN InvalidData("end calculation overflow")
                         ELSE read_iloc_extents(b, item, i + 1,
                                  Append(extents, WithLength(Get(start), Get(end))))

RECURSIVE read_iloc_items(_, _, _)
read_iloc_items(b, i, items) ==
    IF i > Len(b.items)
    THEN IF b.remaining = 0 THEN Ok(items) ELSE InvalidData("invalid iloc size")
    ELSE LET item == b.items[i]
             method == IF b.version = 0 \/ item.construction_method = 0 THEN "File" ELSE "Idat"
         IN IF b.version # 0 /\ item.construction_method = 2
            THEN Unsupported("construction_method 'item_offset' is not supported")
            ELSE IF b.version # 0 /\ item.construction_method > 2
            THEN InvalidData("construction_method is taken from the set 0, 1 or 2")
            ELSE IF item.data_reference_index # 0
            THEN Unsupported("external file references are not supported")
            ELSE IF Len(item.extents) < 1
            THEN InvalidData("extent_count must have a value 1 or greater")
            ELSE LET extents == read_iloc_extents(b, item, 1, << >>)
                 IN IF IsOk(extents)
                    THEN read_iloc_items(b, i + 1,
                             Append(items, ItemLocationBoxItem(item.item_id, method, Val(extents))))
                    ELSE extents

read_iloc(b) ==
    IF b.version \notin {0, 1, 2}
    THEN Unsupported("unsupported version in 'iloc' box")
    ELSE IF {b.offset_size, b.length_size, b.base_offset_size} \subseteq IlocFieldSizes
    THEN read_iloc_items(b, 1, << >>)
    ELSE InvalidData("value must be in the set {0, 4, 8}")

\* the references of the reference boxes from the i-th on, appended to
\* item_references; reference_index counts from 0 inside each box
RECURSIVE read_iref_boxes(_, _, _, _)
read_iref_boxes(b, i, k, item_references) ==
    IF i > Len(b.children)
    THEN Ok(item_references)
    ELSE LET r == b.children[i]
         IN IF k > Len(r.to_item_ids)
            THEN read_iref_boxes(b, i + 1, 1, item_references)
            ELSE IF r.from_item_id = r.to_item_ids[k]
                 THEN InvalidData("from_item_id and to_item_id must be different")
                 ELSE read_iref_boxes(b, i, k + 1,
                          Append(item_references,
                                 SingleItemTypeReferenceBox(r.name, r.from_item_id,
                                                            r.to_item_ids[k], k - 1)))

read_iref(b) ==
    IF b.version > 1 THEN Unsupported("iref version") ELSE read_iref_boxes(b, 1, 1, << >>)

read_ispe(b) ==
    IF b.width = 0 \/ b.height = 0
    THEN InvalidData("ispe dimensions cannot be zero")
    ELSE Ok(PropImageSpatialExtents(b.width, b.height))

read_grid(b) ==
    IF b.version > 0
    THEN Unsupported("grid version > 0")
    ELSE Ok(PropImageGrid(GridConfig(b.rows, b.columns, b.output_width, b.output_height)))

read_auxc(b) ==
    IF b.version # 0 THEN Unsupported("auxC version") ELSE Ok(PropAuxiliaryType(b.aux_data))

read_pixi(b) ==
    IF b.version # 0 THEN Unsupported("pixi version") ELSE Ok(PropChannels(b.channels))

RECURSIVE read_ipco_from(_, _, _)
read_ipco_from(b, i, properties) ==
    IF i > Len(b.children)
    THEN Ok(properties)
    ELSE LET c == b.children[i]
             prop == CASE c.name = "pixi" -> read_pixi(c)
                       [] c.name = "auxC" -> read_auxc(c)
                       [] c.name = "ispe" -> read_ispe(c)
                       [] c.name = "grid" -> read_grid(c)
                       [] OTHER -> Ok(PropUnsupported)
         IN IF IsOk(prop) THEN read_ipco_from(b, i + 1, Append(properties, Val(prop))) ELSE prop

read_ipco(b) == read_ipco_from(b, 1, << >>)

read_ipma(b) == Ok(b.associations)

RECURSIVE associate(_, _, _, _)
associate(properties, associations, i, associated) ==
    IF i > Len(associations)
    THEN associated
    ELSE LET a == associations[i]
         IN associate(properties, associations, i + 1,
                IF a.property_index # 0 /\ a.property_index <= Len(properties)
                   /\ properties[a.property_index] # PropUnsupported
                THEN Append(associated,
                            AssociatedProperty(a.item_id, properties[a.property_index]))
                ELSE associated)

RECURSIVE read_iprp_from(_, _, _, _)
read_iprp_from(b, i, properties, associations) ==
    IF i > Len(b.children)
    THEN Ok(associate(properties, associations, 1, << >>))
    ELSE LET c == b.children[i]
         IN CASE c.name = "ipco" ->
                   LET r == read_ipco(c)
                   IN IF IsOk(r) THEN read_iprp_from(b, i + 1, Val(r), associations) ELSE r
              [] c.name = "ipma" ->
                   read_iprp_from(b, i + 1, properties, Val(read_ipma(c)))
              [] OTHER -> InvalidData("unexpected ipco child")

read_iprp(b) == read_iprp_from(b, 1, << >>, << >>)

\* iter().position(..): index of the first element satisfying P, 0 if none
find(seq, P(_)) ==
    IF \E i \in 1..Len(seq) : P(seq[i])
    THEN CHOOSE i \in 1..Len(seq) : P(seq[i]) /\ \A j \in 1..(i - 1) : ~P(seq[j])
    ELSE 0

AvifInternalMeta(item_references, properties, primary_item_id, iloc_items, item_infos, idat) ==
    [item_references |-> item_references, properties |-> properties,
     primary_item_id |-> primary_item_id, iloc_items |-> iloc_items,
     item_infos |-> item_infos, idat |-> idat]

\* the locals of read_avif_meta before its loop over the child boxes
MetaLocals ==
    [primary_item_id |-> None, item_infos |-> None, iloc_items |-> None,
     item_references |-> << >>, properties |-> << >>, idat |-> None]

\* one iteration of the loop of read_avif_meta: child box b with locals m
meta_child(m, b) ==
    CASE b.name = "iinf" ->
           IF IsSome(m.item_infos)
           THEN InvalidData("There should be zero or one iinf boxes per ISO 14496-12:2015 8.11.6.1")
           ELSE LET r == read_iinf(b)
                IN IF IsOk(r) THEN Ok([m EXCEPT !.item_infos = Some(Val(r))]) ELSE r
      [] b.name = "iloc" ->
           IF IsSome(m.iloc_items)
           THEN InvalidData("There should be zero or one iloc boxes per ISO 14496-12:2015 8.11.3.1")
           ELSE LET r == read_iloc(b)
                IN IF IsOk(r) THEN Ok([m EXCEPT !.iloc_items = Some(Val(r))]) ELSE r
      [] b.name = "pitm" ->
           IF IsSome(m.primary_item_id)
           THEN InvalidData("There should be zero or one iloc boxes per ISO 14496-12:2015 8.11.4.1")
           ELSE LET r == read_pitm(b)
                IN IF IsOk(r) THEN Ok([m EXCEPT !.primary_item_id = Some(Val(r))]) ELSE r
      [] b.name = "iref" ->
           LET r == read_iref(b)
           IN IF IsOk(r)
              THEN Ok([m EXCEPT !.item_references = m.item_references \o Val(r)])
              ELSE r
      [] b.name = "iprp" ->
           LET r == read_iprp(b)
           IN IF IsOk(r) THEN Ok([m EXCEPT !.properties = Val(r)]) ELSE r
      [] b.name = "idat" ->
           IF IsSome(m.idat)
           THEN InvalidData("There should be zero or one idat boxes")
           ELSE Ok([m EXCEPT !.idat = Some(IdatBytes(b.length))])
      [] OTHER -> Ok(m)

\* mutation: any item type is accepted for the primary item
primary_type_any(item_type) == TRUE
primary_type_ok(item_type) == item_type = "av01" \/ item_type = "grid"

\* read_avif_meta after its loop
meta_finish(m) ==
    IF ~IsSome(m.primary_item_id)
    THEN InvalidData("Required pitm box not present in meta box")
    ELSE IF ~IsSome(m.item_infos)
    THEN InvalidData("iinf missing")
    ELSE LET primary_item_id == Get(m.primary_item_id)
             item_infos == Get(m.item_infos)
             i == find(item_infos, LAMBDA x : x.item_id = primary_item_id)
         IN IF i = 0
            THEN InvalidData("primary_item_id not present in iinf box")
            ELSE IF ~primary_type_ok(item_infos[i].item_type)
            THEN InvalidData("primary_item_id type is not av01 or grid")
            ELSE IF ~IsSome(m.iloc_items)
            THEN InvalidData("iloc missing")
            ELSE Ok(AvifInternalMeta(m.item_references, m.properties, primary_item_id,
                                     Get(m.iloc_items), item_infos, m.idat))

RECURSIVE meta_children(_, _, _)
meta_children(b, i, m) ==
    IF i > Len(b.children)
    THEN meta_finish(m)
    ELSE LET r == meta_child(m, b.children[i])
         IN IF IsOk(r) THEN meta_children(b, i + 1, Val(r)) ELSE r

meta_version_ok(version) == version = 0

read_avif_meta(b) ==
    IF ~meta_version_ok(b.version)
    THEN Unsupported("unsupported meta version")
    ELSE meta_children(b, 1, MetaLocals)

(***************************************************************************)
(* SpecMeta: read_avif_meta on one meta box, child box by child box.       *)
(* meta holds the locals of read_avif_meta, iter the children taken.       *)
(***************************************************************************)
MetaUnchanged ==
    UNCHANGED <<overflow_checks, input, config, stop, api, mdats, animation_data,
                tracker, tiles_with_index, context, parser, call, ret, frames_iter>>

ReadMetaVersion ==
    /\ pc = "meta_version"
    /\ IF meta_version_ok(input[1].version)
       THEN pc' = "meta_children" /\ meta' = Some(MetaLocals) /\ result' = result
       ELSE pc' = "done" /\ meta' = meta
            /\ result' = Some(Unsupported("unsupported meta version"))
    /\ iter' = 0
    /\ MetaUnchanged

ReadMetaChild ==
    /\ pc = "meta_children"
    /\ iter < Len(input[1].children)
    /\ LET r == meta_child(Get(meta), input[1].children[iter + 1])
       IN IF IsOk(r)
          THEN pc' = pc /\ meta' = Some(Val(r)) /\ result' = result
          ELSE pc' = "done" /\ meta' = meta /\ result' = Some(r)
    /\ iter' = iter + 1
    /\ MetaUnchanged

ReadMetaFinish ==
    /\ pc = "meta_children"
    /\ iter = Len(input[1].children)
    /\ LET r == meta_finish(Get(meta))
       IN /\ result' = Some(r)
          /\ meta' = IF IsOk(r) THEN Some(Val(r)) ELSE meta
    /\ pc' = "done"
    /\ iter' = iter
    /\ MetaUnchanged

\* most child boxes of the meta boxes of SpecMeta
MaxMetaChildren == 4

MetaChildBoxes ==
    { PitmBox(0, 1), PitmBox(2, 1),
      IinfBox(0, << InfeBox(2, 1, "av01") >>),
      IinfBox(0, << InfeBox(2, 2, "av01"), InfeBox(2, 1, "grid") >>),
      IinfBox(0, << InfeBox(2, 1, "hvc1") >>),
      IinfBox(0, << InfeBox(2, 2, "av01") >>),
      IlocBox(0, << IlocItem(1, 0, 0, << IlocExtent(MinMdatOffset, 1) >>) >>),
      IdatBox(2),
      OtherBox("hdlr") }

MetaBoxes ==
    { MetaBox(v, ch) : v \in {0, 1},
                       ch \in UNION { [1..n -> MetaChildBoxes] : n \in 0..MaxMetaChildren } }

InitMeta ==
    /\ overflow_checks = FALSE
    /\ \E b \in MetaBoxes : input = << b >>
    /\ config = UnlimitedConfig
    /\ stop = Unstoppable
    /\ api = "read_avif_meta"
    /\ pc = "meta_version"
    /\ iter = 0
    /\ meta = None
    /\ mdats = << >>
    /\ animation_data = None
    /\ tracker = NewTracker
    /\ tiles_with_index = << >>
    /\ context = None
    /\ parser = None
    /\ result = None
    /\ call = NoCall
    /\ ret = None
    /\ frames_iter = None

NextMeta == ReadMetaVersion \/ ReadMetaChild \/ ReadMetaFinish

SpecMeta == InitMeta /\ [][NextMeta]_vars

\* how many child boxes named `name` the meta box has
CountChildren(b, name) == Cardinality({ i \in 1..Len(b.children) : b.children[i].name = name })
\* every child box is one its own reader accepts
ChildrenReadable(b) ==
    \A i \in 1..Len(b.children) :
        LET c == b.children[i]
        IN CASE c.name = "pitm" -> IsOk(read_pitm(c))
             [] c.name = "iinf" -> IsOk(read_iinf(c))
             [] c.name = "iloc" -> IsOk(read_iloc(c))
             [] c.name = "iref" -> IsOk(read_iref(c))
             [] c.name = "iprp" -> IsOk(read_iprp(c))
             [] OTHER -> TRUE
\* the item types iinf lists for the item pitm names
Elems(seq) == { seq[i] : i \in 1..Len(seq) }
PrimaryTypes(b) ==
    LET pitms == { c \in Elems(b.children) : c.name = "pitm" }
        iinfs == { c \in Elems(b.children) : c.name = "iinf" }
    IN UNION { { e.item_type : e \in { x \in Elems(c.children) :
                                         \E p \in pitms : p.item_id = x.item_id } } :
               c \in iinfs }
MetaWellFormed(b) ==
    /\ b.version = 0
    /\ CountChildren(b, "pitm") = 1
    /\ CountChildren(b, "iinf") = 1
    /\ CountChildren(b, "iloc") = 1
    /\ CountChildren(b, "idat") <= 1
    /\ PrimaryTypes(b) # {}
    /\ PrimaryTypes(b) \subseteq {"av01", "grid"}

C9_WitnessDuplicate ==
    /\ pc = "done" /\ api = "read_avif_meta"
    /\ CountChildren(input[1], "idat") = 2
    /\ Get(result) = InvalidData("There should be zero or one idat boxes")

(***************************************************************************)
(* The file: a sequence of top-level boxes.  Every header takes MIN_SIZE   *)
(* bytes; `length` is the number of payload bytes in the file and `size0`  *)
(* tells that the header's size field is 0 (the box runs to end of file).  *)
(***************************************************************************)
TopLevel(box, length, size0) == [box |-> box, length |-> length, size0 |-> size0]
FtypBox(major_brand) == [name |-> "ftyp", major_brand |-> major_brand]
MdatBox == [name |-> "mdat"]
StszBox(sample_size, sample_count, entry_sizes) ==
    [sample_size |-> sample_size, sample_count |-> sample_count, entry_sizes |-> entry_sizes]
StblBox(stts, stsc, stsz, stco) ==
    [name |-> "stbl", stts |-> stts, stsc |-> stsc, stsz |-> stsz, stco |-> stco]
\* a trak box: its mdia's mdhd timescale and stbl, where present, and the
\* children the readers skip: tkhd (track_id), edts/elst (its flags), tref
\* (reference type and track ids) and the mdia's hdlr (handler type)
TrakBox(mdia) ==
    [name |-> "trak", mdia |-> mdia, track_id |-> 1, edts |-> None, tref |-> None]
MdiaBox(timescale, stbl) ==
    [name |-> "mdia", timescale |-> timescale, stbl |-> stbl, hdlr |-> "pict"]
ElstBox(flags) == [name |-> "elst", flags |-> flags]
TrefBox(type, track_ids) == [name |-> "tref", type |-> type, track_ids |-> track_ids]
MoovBox(children) == [name |-> "moov", children |-> children]

RECURSIVE box_start(_, _)
\* offset of the header of the i-th top-level box
box_start(file, i) ==
    IF i <= 1 THEN 0 ELSE box_start(file, i - 1) + MIN_SIZE + file[i - 1].length
\* b.offset() once the header is read, and the length of the file
payload_offset(file, i) == box_start(file, i) + MIN_SIZE
file_len(file) == box_start(file, Len(file) + 1)
\* b.bytes_left() once the header is read
bytes_left(b) == IF b.size0 THEN ToEofLength ELSE b.length

read_ftyp(b) ==
    IF b.length < 8
    THEN UnexpectedEOF
    ELSE IF (b.length - 8) % 4 # 0
         THEN InvalidData("invalid ftyp size")
         ELSE Ok(b.box.major_brand)

read_stsz(b) ==
    IF b.sample_size = 0
    THEN IF Len(b.entry_sizes) < b.sample_count
         THEN UnexpectedEOF
         ELSE Ok(SubSeq(b.entry_sizes, 1, b.sample_count))
    ELSE Ok([i \in 1..b.sample_count |-> b.sample_size])

read_stbl(b) ==
    LET sizes == read_stsz(b.stsz)
    IN IF IsOk(sizes) THEN Ok(SampleTable(b.stts, b.stsc, Val(sizes), b.stco)) ELSE sizes

DEFAULT_TIMESCALE == 1000

\* read_trak, read_mdia and read_minf: Ok(Some(<<timescale, table>>)) for a
\* track with a sample table, Ok(None) for one without
read_trak(b) ==
    IF ~IsSome(b.mdia) \/ ~IsSome(Get(b.mdia).stbl)
    THEN Ok(None)
    ELSE LET mdia == Get(b.mdia)
             st == read_stbl(Get(mdia.stbl))
         IN IF IsOk(st)
            THEN Ok(Some(<< IF IsSome(mdia.timescale) THEN Get(mdia.timescale)
                            ELSE DEFAULT_TIMESCALE, Val(st) >>))
            ELSE st

RECURSIVE read_moov_from(_, _, _)
read_moov_from(b, i, found) ==
    IF i > Len(b.children)
    THEN Ok(found)
    ELSE IF b.children[i].name = "trak" /\ ~IsSome(found)
         THEN LET r == read_trak(b.children[i])
              IN IF IsOk(r) THEN read_moov_from(b, i + 1, Val(r)) ELSE r
         ELSE read_moov_from(b, i + 1, found)

read_moov(b) == read_moov_from(b, 1, None)

(***************************************************************************)
(* Stop token and ResourceTracker                                          *)
(***************************************************************************)
\* stop.check(): does it pass, and the token afterwards
stop_passes(token) ==
    IF IsSome(token.cancel_after) THEN token.checks < Get(token.cancel_after) ELSE TRUE
stop_after(token) ==
    IF IsSome(token.cancel_after) /\ token.checks < Get(token.cancel_after)
    THEN [token EXCEPT !.checks = @ + 1]
    ELSE token

saturating_add(a, b) == Min(a + b, U64_MAX)
saturating_sub(a, b) == Max(a - b, 0)

\* reserve: the tracker afterwards, and the result
reserved(t, bytes) ==
    LET current == saturating_add(t.current_memory, bytes)
    IN [current_memory |-> current, peak_memory |-> Max(t.peak_memory, current)]
\* reserve refusing a peak that only reaches the limit
reserve_at_limit(cfg, t, bytes) ==
    IF IsSome(cfg.peak_memory_limit) /\ reserved(t, bytes).peak_memory >= Get(cfg.peak_memory_limit)
    THEN ResourceLimitExceeded("peak memory limit exceeded")
    ELSE Ok(TRUE)
reserve(cfg, t, bytes) ==
    IF IsSome(cfg.peak_memory_limit) /\ reserved(t, bytes).peak_memory > Get(cfg.peak_memory_limit)
    THEN ResourceLimitExceeded("peak memory limit exceeded")
    ELSE Ok(TRUE)
release(t, bytes) == [t EXCEPT !.current_memory = saturating_sub(t.current_memory, bytes)]

MEGAPIXEL == 1000000

validate_total_megapixels(cfg, width, height) ==
    IF IsSome(cfg.total_megapixels_limit)
       /\ (width * height) \div MEGAPIXEL > Get(cfg.total_megapixels_limit)
    THEN ResourceLimitExceeded("total megapixels limit exceeded")
    ELSE Ok(TRUE)

\* mutation: the frame count may not reach the limit
frames_exceed_inclusive(count, limit) == count >= limit
frames_exceed(count, limit) == count > limit

validate_animation_frames(cfg, count) ==
    IF IsSome(cfg.max_animation_frames) /\ frames_exceed(count, Get(cfg.max_animation_frames))
    THEN ResourceLimitExceeded("animation frame count limit exceeded")
    ELSE Ok(TRUE)

validate_grid_tiles(cfg, count) ==
    IF IsSome(cfg.max_grid_tiles) /\ count > Get(cfg.max_grid_tiles)
    THEN ResourceLimitExceeded("grid tile count limit exceeded")
    ELSE Ok(TRUE)

(***************************************************************************)
(* The entry points as steps on the state s (a record of the variables).   *)
(* pc: "ftyp" -> "boxes" -> "build_items" -> "build_finish" -> "done" for  *)
(* the AvifParser constructors, "ftyp" -> "boxes" -> "eager_items" ->      *)
(* "eager_animation" -> "done" for read_avif_with_config.                  *)
(***************************************************************************)
IsEager(s) == s.api = "read_avif_with_config"
\* the entry point returns err
fail(s, err) == [s EXCEPT !.pc = "done", !.result = Some(err)]

brand_accepted(major_brand) == major_brand = "avif" \/ major_brand = "avis"

\* the first next_box() and the ftyp check (parse_raw 770-779)
ftyp_step(s) ==
    IF Len(s.input) = 0
    THEN [s EXCEPT !.pc = "boxes"]
    ELSE LET b == s.input[1]
             t == [s EXCEPT !.iter = 1]
         IN IF b.box.name = "ftyp"
            THEN LET ftyp == read_ftyp(b)
                 IN IF ~IsOk(ftyp)
                    THEN fail(t, ftyp)
                    ELSE IF ~brand_accepted(Val(ftyp))
                         THEN fail(t, InvalidData("ftyp must be 'avif' or 'avis'"))
                         ELSE [t EXCEPT !.pc = "boxes"]
            ELSE fail(t, InvalidData("'ftyp' box must occur first"))

AnimationData(timescale, st) ==
    [media_timescale |-> timescale, sample_table |-> st, loop_count |-> 0]
MediaDataBox(offset, data) == [offset |-> offset, data |-> data]

\* mutation: a second meta box replaces the first
meta_seen_never(m) == FALSE
meta_seen(m) == IsSome(m)

\* the match on the box name (parse_raw 788-812, read_avif_with_config
\* 1889-1910); i is the index of the box
on_meta(s, i) ==
    IF meta_seen(s.meta)
    THEN fail(s, InvalidData("There should be zero or one meta boxes per ISO 14496-12:2015 8.11.1.1"))
    ELSE LET r == read_avif_meta(s.input[i].box)
         IN IF IsOk(r) THEN [s EXCEPT !.meta = Some(Val(r))] ELSE fail(s, r)

on_moov(s, i) ==
    LET r == read_moov(s.input[i].box)
    IN IF ~IsOk(r)
       THEN fail(s, r)
       ELSE IF IsSome(Val(r))
            THEN [s EXCEPT !.animation_data =
                               Some(AnimationData(Get(Val(r))[1], Get(Val(r))[2]))]
            ELSE IF IsEager(s) THEN [s EXCEPT !.animation_data = None] ELSE s

on_mdat(s, i) ==
    LET b == s.input[i]
        offset == payload_offset(s.input, i)
        size == bytes_left(b)
    IN IF size = 0
       THEN s
       ELSE IF IsEager(s)
            THEN LET r == reserve(s.config, s.tracker, size)
                     data == [k \in 1..b.length |-> offset + k - 1]
                 IN IF IsOk(r)
                    THEN [s EXCEPT !.tracker = release(reserved(s.tracker, size), size),
                                   !.mdats = Append(s.mdats, MediaDataBox(offset, data))]
                    ELSE fail([s EXCEPT !.tracker = reserved(s.tracker, size)], r)
            ELSE [s EXCEPT !.mdats = Append(s.mdats, MdatBounds(offset, size))]

dispatch(s, i) ==
    CASE s.input[i].box.name = "meta" -> on_meta(s, i)
      [] s.input[i].box.name = "moov" -> on_moov(s, i)
      [] s.input[i].box.name = "mdat" -> on_mdat(s, i)
      [] OTHER -> s

\* mutation: the box is handled before the stop token is asked
box_step_check_late(s) ==
    LET t == dispatch([s EXCEPT !.iter = s.iter + 1], s.iter + 1)
    IN IF t.pc = "done" \/ stop_passes(s.stop)
       THEN [t EXCEPT !.stop = stop_after(s.stop)]
       ELSE fail(t, Stopped("Cancelled"))

\* one iteration of the loop over the top-level boxes: next_box(),
\* stop.check(), the match, check_parser_state (every box of the file is
\* complete, so that nothing is left unread in it)
box_step(s) ==
    LET t == [s EXCEPT !.iter = s.iter + 1]
    IN IF stop_passes(s.stop)
       THEN dispatch([t EXCEPT !.stop = stop_after(s.stop)], s.iter + 1)
       ELSE fail(t, Stopped("Cancelled"))

\* after the loop (parse_raw 817-819, read_avif_with_config 1915)
finish_step(s) ==
    IF ~IsSome(s.meta)
    THEN fail(s, InvalidData("missing meta"))
    ELSE [s EXCEPT !.pc = IF IsEager(s) THEN "eager_items" ELSE "build_items"]

get_item_extents(m, item_id) ==
    LET i == find(m.iloc_items, LAMBDA item : item.item_id = item_id)
    IN IF i = 0
       THEN InvalidData("item not found in iloc")
       ELSE Ok(ItemExtents(m.iloc_items[i].construction_method, m.iloc_items[i].extents))

\* AuxiliaryTypeProperty::type_subtype: aux_data split at its first NUL byte.
\* aux_data is a sequence of pieces of the byte string, NUL standing for one
\* zero byte and every other piece for a run of bytes without zero.
type_subtype_whole(aux_data) == << aux_data, << >> >>
type_subtype(aux_data) ==
    LET pos == find(aux_data, LAMBDA b : b = NUL)
    IN IF pos = 0
       THEN << aux_data, << >> >>
       ELSE << SubSeq(aux_data, 1, pos - 1), SubSeq(aux_data, pos + 1, Len(aux_data)) >>

\* Option<u32>: the first auxl reference to the primary item from an item
\* with the alpha auxiliary type
alpha_item_id(m) ==
    LET i == find(m.item_references,
                  LAMBDA iref : /\ iref.to_item_id = m.primary_item_id
                                /\ iref.from_item_id # m.primary_item_id
                                /\ iref.item_type = "auxl"
                                /\ \E k \in 1..Len(m.properties) :
                                      /\ m.properties[k].item_id = iref.from_item_id
                                      /\ m.properties[k].property.kind = "AuxiliaryType"
                                      /\ type_subtype(m.properties[k].property.aux_data)[1]
                                            = << ALPHA_URN >>)
    IN IF i = 0 THEN None ELSE Some(m.item_references[i].from_item_id)

premultiplied(m, alpha_id) ==
    /\ IsSome(alpha_id)
    /\ \E k \in 1..Len(m.item_references) :
          /\ m.item_references[k].from_item_id = m.primary_item_id
          /\ m.item_references[k].to_item_id = Get(alpha_id)
          /\ m.item_references[k].item_type = "prem"

is_grid(m) ==
    LET i == find(m.item_infos, LAMBDA x : x.item_id = m.primary_item_id)
    IN i # 0 /\ m.item_infos[i].item_type = "grid"

\* the dimg references from the primary item, in the order of item_references
RECURSIVE collect_tiles(_, _, _)
collect_tiles(m, i, tiles) ==
    IF i > Len(m.item_references)
    THEN tiles
    ELSE LET iref == m.item_references[i]
         IN collect_tiles(m, i + 1,
                IF iref.from_item_id = m.primary_item_id /\ iref.item_type = "dimg"
                THEN Append(tiles, << iref.to_item_id, iref.reference_index >>)
                ELSE tiles)

\* mutation: the tiles stay in the order of item_references
sort_key_constant(tile) == 0
sort_key(tile) == tile[2]

\* sort_by_key (stable): insertion of each element after those whose key is
\* not greater
RECURSIVE insert_by_key(_, _)
insert_by_key(sorted, x) ==
    IF sorted = << >>
    THEN << x >>
    ELSE IF sort_key(sorted[Len(sorted)]) <= sort_key(x)
         THEN Append(sorted, x)
         ELSE Append(insert_by_key(SubSeq(sorted, 1, Len(sorted) - 1), x), sorted[Len(sorted)])
RECURSIVE sort_by_key(_)
sort_by_key(seq) ==
    IF seq = << >> THEN << >>
    ELSE insert_by_key(sort_by_key(SubSeq(seq, 1, Len(seq) - 1)), seq[Len(seq)])

first_property(m, item_id) ==
    LET i == find(m.properties, LAMBDA p : p.item_id = item_id)
    IN IF i = 0 THEN None ELSE Some(m.properties[i].property)
\* the ispe dimensions, if the first property of the item is an ispe
ispe_of(m, item_id) ==
    IF IsSome(first_property(m, item_id))
       /\ Get(first_property(m, item_id)).kind = "ImageSpatialExtents"
    THEN first_property(m, item_id)
    ELSE None
explicit_grid(m) ==
    LET i == find(m.properties, LAMBDA p : /\ p.item_id = m.primary_item_id
                                           /\ p.property.kind = "ImageGrid")
    IN IF i = 0 THEN None ELSE m.properties[i].property.grid

U8_MAX == 255

calculate_grid_config(m, tile_ids) ==
    IF IsSome(explicit_grid(m))
    THEN Get(explicit_grid(m))
    ELSE LET grid == ispe_of(m, m.primary_item_id)
             tile == IF Len(tile_ids) > 0 THEN ispe_of(m, tile_ids[1]) ELSE None
         IN IF /\ IsSome(grid) /\ IsSome(tile)
               /\ Get(tile).width # 0 /\ Get(tile).height # 0
               /\ Get(grid).width % Get(tile).width = 0
               /\ Get(grid).height % Get(tile).height = 0
               /\ Get(grid).width \div Get(tile).width <= U8_MAX
               /\ Get(grid).height \div Get(tile).height <= U8_MAX
            THEN GridConfig(Get(grid).height \div Get(tile).height,
                            Get(grid).width \div Get(tile).width,
                            Get(grid).width, Get(grid).height)
            ELSE GridConfig(Min(Len(tile_ids), U8_MAX), 1, 0, 0)

(***************************************************************************)
(* AvifParser::build                                                       *)
(***************************************************************************)
RECURSIVE tile_extents_from(_, _, _, _)
tile_extents_from(m, tiles, i, tile_extents) ==
    IF i > Len(tiles)
    THEN Ok(tile_extents)
    ELSE LET e == get_item_extents(m, tiles[i][1])
         IN IF IsOk(e) THEN tile_extents_from(m, tiles, i + 1, Append(tile_extents, Val(e)))
            ELSE e

tile_ids_of(tiles) == [i \in 1..Len(tiles) |-> tiles[i][1]]

raw_of(s) ==
    [cow |-> IF s.api = "from_bytes_with_config" THEN "Borrowed" ELSE "Owned",
     bytes |-> RawBytes(file_len(s.input))]

\* build 824-898: primary and alpha extents, premultiplied flag, grid tiles
build_items_step(s) ==
    LET m == Get(s.meta)
        primary == get_item_extents(m, m.primary_item_id)
        alpha_id == alpha_item_id(m)
        alpha == IF IsSome(alpha_id) THEN get_item_extents(m, Get(alpha_id)) ELSE Ok(<< >>)
        collected == collect_tiles(m, 1, << >>)
        sorted == sort_by_key(collected)
        tile_extents == tile_extents_from(m, sorted, 1, << >>)
        t == [s EXCEPT !.tracker = NewTracker]
    IN IF ~IsOk(primary) THEN fail(t, primary)
       ELSE IF ~IsOk(alpha) THEN fail(t, alpha)
       ELSE IF ~is_grid(m)
       THEN [t EXCEPT !.pc = "build_finish",
                      !.parser = Some(AvifParser(raw_of(s), s.mdats, None, Val(primary),
                                       IF IsSome(alpha_id) THEN Some(Val(alpha)) ELSE None,
                                       None, << >>, None, premultiplied(m, alpha_id)))]
       ELSE IF ~IsOk(validate_grid_tiles(s.config, Len(collected)))
       THEN fail([t EXCEPT !.tiles_with_index = collected],
                 validate_grid_tiles(s.config, Len(collected)))
       ELSE IF ~IsOk(tile_extents)
       THEN fail([t EXCEPT !.tiles_with_index = sorted], tile_extents)
       ELSE [t EXCEPT !.pc = "build_finish",
                      !.tiles_with_index = sorted,
                      !.parser = Some(AvifParser(raw_of(s), s.mdats, None, Val(primary),
                                       IF IsSome(alpha_id) THEN Some(Val(alpha)) ELSE None,
                                       Some(calculate_grid_config(m, tile_ids_of(sorted))),
                                       Val(tile_extents), None, premultiplied(m, alpha_id)))]

\* build 900-927: animation frame limit, idat, the parser
build_finish_step(s) ==
    LET m == Get(s.meta)
        frames == IF IsSome(s.animation_data)
                  THEN validate_animation_frames(s.config,
                           Len(Get(s.animation_data).sample_table.sample_sizes))
                  ELSE Ok(TRUE)
    IN IF ~IsOk(frames)
       THEN fail([s EXCEPT !.parser = None], frames)
       ELSE [s EXCEPT !.pc = "done",
                      !.parser = Some([Get(s.parser) EXCEPT
                                          !.animation_data = s.animation_data,
                                          !.idat = m.idat]),
                      !.result = Some(Ok("AvifParser"))]

(***************************************************************************)
(* read_avif_with_config after the loop over the boxes                     *)
(***************************************************************************)
AvifData(primary_item, alpha_item, premultiplied_alpha, grid_config, grid_tiles, animation) ==
    [primary_item |-> primary_item, alpha_item |-> alpha_item,
     premultiplied_alpha |-> premultiplied_alpha, grid_config |-> grid_config,
     grid_tiles |-> grid_tiles, animation |-> animation]

contains_extent(mdat, extent) ==
    mdat.offset <= extent.start /\ extent.start - mdat.offset < Len(mdat.data)

matches_extent(mdat, extent) ==
    /\ mdat.offset = extent.start
    /\ \/ extent.kind = "ToEnd"
       \/ /\ mdat.offset + Len(mdat.data) <= U64_MAX
          /\ mdat.offset + Len(mdat.data) = extent.end

\* read_extent: the bytes it appends
read_extent(mdat, extent) ==
    IF extent.start < mdat.offset
    THEN InvalidData("mdat does not contain extent")
    ELSE IF extent.kind = "ToEnd"
    THEN LET slice == slice_get(mdat.data, extent.start - mdat.offset, Len(mdat.data))
         IN IF IsSome(slice) THEN Ok(Get(slice)) ELSE InvalidData("extent crosses box boundary")
    ELSE IF extent.end < extent.start
    THEN InvalidData("range start > end")
    ELSE LET slice == slice_get(mdat.data, extent.start - mdat.offset,
                                extent.end - mdat.offset)
         IN IF IsSome(slice) THEN Ok(Get(slice)) ELSE InvalidData("extent crosses box boundary")

\* the pair of extract_item_data's result (the buffer) and the mdats after it
Extracted(res, boxes) == [res |-> res, mdats |-> boxes]

\* one File extent: the first mdat that matches it gives up its data, else the
\* first that contains its start is read
RECURSIVE extract_file_extent(_, _, _, _)
extract_file_extent(extent, buf, boxes, k) ==
    IF k > Len(boxes)
    THEN Extracted(InvalidData("iloc contains an extent that is not in mdat"), boxes)
    ELSE IF matches_extent(boxes[k], extent)
    THEN Extracted(Ok(buf \o boxes[k].data), [boxes EXCEPT ![k].data = << >>])
    ELSE IF contains_extent(boxes[k], extent)
    THEN LET r == read_extent(boxes[k], extent)
         IN Extracted(IF IsOk(r) THEN Ok(buf \o Val(r)) ELSE r, boxes)
    ELSE extract_file_extent(extent, buf, boxes, k + 1)

idat_extent(idat_data, extent) ==
    IF extent.kind = "WithLength"
    THEN IF extent.end > Len(idat_data)
         THEN InvalidData("extent exceeds idat size")
         ELSE Ok(SubSeq(idat_data, extent.start + 1, extent.end))
    ELSE IF extent.start >= Len(idat_data)
         THEN InvalidData("extent start exceeds idat size")
         ELSE Ok(SubSeq(idat_data, extent.start + 1, Len(idat_data)))

RECURSIVE extract_item_data(_, _, _, _, _)
extract_item_data(m, loc, i, buf, boxes) ==
    IF i > Len(loc.extents)
    THEN Extracted(Ok(buf), boxes)
    ELSE IF loc.construction_method = "File"
    THEN LET e == extract_file_extent(loc.extents[i], buf, boxes, 1)
         IN IF IsOk(e.res) THEN extract_item_data(m, loc, i + 1, Val(e.res), e.mdats) ELSE e
    ELSE IF ~IsSome(m.idat)
    THEN Extracted(InvalidData("idat box missing but construction_method is Idat"), boxes)
    ELSE LET r == idat_extent(Get(m.idat), loc.extents[i])
         IN IF IsOk(r) THEN extract_item_data(m, loc, i + 1, buf \o Val(r), boxes)
            ELSE Extracted(r, boxes)

STOP_INTERVAL == 16

\* the loop over the tiles of a grid (2130-2144); acc carries the tiles read
\* so far, the mdats and the stop token
RECURSIVE extract_tiles(_, _, _, _)
extract_tiles(m, tile_item_ids, idx, acc) ==
    IF idx >= Len(tile_item_ids)
    THEN acc
    ELSE IF idx % STOP_INTERVAL = 0 /\ ~stop_passes(acc.stop)
    THEN [acc EXCEPT !.res = Stopped("Cancelled")]
    ELSE LET token == IF idx % STOP_INTERVAL = 0 THEN stop_after(acc.stop) ELSE acc.stop
             k == find(m.iloc_items, LAMBDA loc : loc.item_id = tile_item_ids[idx + 1])
             e == extract_item_data(m, m.iloc_items[k], 1, << >>, acc.mdats)
         IN IF k = 0
            THEN [acc EXCEPT !.res = InvalidData("grid tile not found in iloc"), !.stop = token]
            ELSE IF ~IsOk(e.res)
            THEN [acc EXCEPT !.res = e.res, !.stop = token]
            ELSE extract_tiles(m, tile_item_ids, idx + 1,
                     [res |-> Ok(Append(Val(acc.res), Val(e.res))),
                      mdats |-> e.mdats, stop |-> token])

\* the loop over iloc_items of a file without grid (2150-2160); acc carries
\* primary_item, alpha_item and the mdats
RECURSIVE extract_still(_, _, _, _)
extract_still(m, alpha_id, i, acc) ==
    IF i > Len(m.iloc_items)
    THEN acc
    ELSE LET loc == m.iloc_items[i]
         IN IF loc.item_id = m.primary_item_id
            THEN LET e == extract_item_data(m, loc, 1, acc.primary_item, acc.mdats)
                 IN IF IsOk(e.res)
                    THEN extract_still(m, alpha_id, i + 1,
                             [acc EXCEPT !.primary_item = Val(e.res), !.mdats = e.mdats])
                    ELSE [acc EXCEPT !.res = e.res]
            ELSE IF alpha_id = Some(loc.item_id)
            THEN LET e == extract_item_data(m, loc, 1,
                              IF IsSome(acc.alpha_item) THEN Get(acc.alpha_item) ELSE << >>,
                              acc.mdats)
                 IN IF IsOk(e.res)
                    THEN extract_still(m, alpha_id, i + 1,
                             [acc EXCEPT !.alpha_item = Some(Val(e.res)), !.mdats = e.mdats])
                    ELSE [acc EXCEPT !.res = e.res]
            ELSE extract_still(m, alpha_id, i + 1, acc)

\* the grid layout of the eager path (1931-2033), given the sorted tile ids
eager_grid_config(m, ids) ==
    IF IsSome(explicit_grid(m)) \/ Len(ids) = 0
    THEN explicit_grid(m)
    ELSE LET grid == ispe_of(m, m.primary_item_id)
             tile == ispe_of(m, ids[1])
         IN IF /\ IsSome(grid) /\ IsSome(tile)
               /\ Get(tile).width # 0 /\ Get(tile).height # 0
               /\ Get(grid).width % Get(tile).width = 0
               /\ Get(grid).height % Get(tile).height = 0
               /\ Get(grid).width \div Get(tile).width <= U8_MAX
               /\ Get(grid).height \div Get(tile).height <= U8_MAX
            THEN Some(GridConfig(Get(grid).height \div Get(tile).height,
                                 Get(grid).width \div Get(tile).width,
                                 Get(grid).width, Get(grid).height))
            ELSE Some(GridConfig(Len(ids) % (U8_MAX + 1), 1, 0, 0))

\* the validate_total_megapixels call of the eager path (1975-1995)
eager_megapixels(cfg, m, ids) ==
    IF /\ ~IsSome(explicit_grid(m)) /\ Len(ids) > 0
       /\ IsSome(ispe_of(m, m.primary_item_id)) /\ IsSome(ispe_of(m, ids[1]))
    THEN validate_total_megapixels(cfg, Get(ispe_of(m, m.primary_item_id)).width,
                                   Get(ispe_of(m, m.primary_item_id)).height)
    ELSE Ok(TRUE)

\* read_avif_with_config 1917-2161
eager_items_step(s) ==
    LET m == Get(s.meta)
        collected == collect_tiles(m, 1, << >>)
        ids == tile_ids_of(sort_by_key(collected))
        alpha_id == alpha_item_id(m)
        tiles == extract_tiles(m, ids, 0, [res |-> Ok(<< >>), mdats |-> s.mdats, stop |-> s.stop])
        still == extract_still(m, alpha_id, 1,
                     [res |-> Ok(TRUE), primary_item |-> << >>, alpha_item |-> None,
                      mdats |-> s.mdats])
    IN IF is_grid(m)
       THEN IF ~IsOk(validate_grid_tiles(s.config, Len(collected)))
            THEN fail([s EXCEPT !.tiles_with_index = collected],
                      validate_grid_tiles(s.config, Len(collected)))
            ELSE IF ~IsOk(eager_megapixels(s.config, m, ids))
            THEN fail([s EXCEPT !.tiles_with_index = sort_by_key(collected)],
                      eager_megapixels(s.config, m, ids))
            ELSE IF ~IsOk(tiles.res)
            THEN fail([s EXCEPT !.tiles_with_index = sort_by_key(collected),
                                !.mdats = tiles.mdats, !.stop = tiles.stop], tiles.res)
            ELSE [s EXCEPT !.pc = "eager_animation",
                           !.tiles_with_index = sort_by_key(collected),
                           !.mdats = tiles.mdats, !.stop = tiles.stop,
                           !.context = Some(AvifData(<< >>, None, premultiplied(m, alpha_id),
                                                     eager_grid_config(m, ids),
                                                     Val(tiles.res), None))]
       ELSE IF ~IsOk(still.res)
            THEN fail([s EXCEPT !.mdats = still.mdats], still.res)
            ELSE [s EXCEPT !.pc = "eager_animation",
                           !.mdats = still.mdats,
                           !.context = Some(AvifData(still.primary_item, still.alpha_item,
                                                     premultiplied(m, alpha_id),
                                                     None, << >>, None))]

AnimationFrame(data, duration_ms) == [data |-> data, duration_ms |-> duration_ms]

\* the mdat loop of extract_animation_frames (2948-2959) for one sample:
\* the frame data, empty when no mdat contains the start of the range
RECURSIVE frame_data_from(_, _, _)
frame_data_from(boxes, range, k) ==
    IF k > Len(boxes)
    THEN Ok(<< >>)
    ELSE IF contains_extent(boxes[k], range)
         THEN read_extent(boxes[k], range)
         ELSE frame_data_from(boxes, range, k + 1)

\* one sample of a chunk (2925-2971)
eager_sample(s, st, timescale, chunk_offset, sample_in_chunk, current_sample) ==
    LET sample_size == st.sample_sizes[current_sample + 1]
        sample_offset == chunk_offset
                         + offset_in_chunk(st, current_sample, sample_in_chunk, 0)
        end == Wrap64(sample_offset) + sample_size
        data == frame_data_from(s.mdats, WithLength(Wrap64(sample_offset), Wrap64(end)), 1)
    IN IF s.overflow_checks /\ (sample_offset > U64_MAX \/ (Len(s.mdats) > 0 /\ end > U64_MAX))
       THEN Panic("attempt to add with overflow")
       ELSE IF IsOk(data)
            THEN Ok(AnimationFrame(Val(data),
                        frame_duration_from(st, timescale, current_sample, 1, 0)))
            ELSE data

\* the loops of extract_animation_frames over the chunks of the
\* sample_to_chunk entries (2884-2897, 2917-2972)
RECURSIVE eager_frames(_, _, _, _, _, _, _, _)
eager_frames(s, st, timescale, map_idx, chunk_idx, sample_in_chunk, current_sample, frames) ==
    IF map_idx >= Len(st.sample_to_chunk)
    THEN Ok(frames)
    ELSE LET entry == st.sample_to_chunk[map_idx + 1]
             last == map_idx + 1 >= Len(st.sample_to_chunk)
             next_first_chunk == IF last THEN U32_MAX
                                 ELSE st.sample_to_chunk[map_idx + 2].first_chunk
             chunk == saturating_sub(chunk_idx, 1)
         IN IF chunk_idx >= next_first_chunk \/ chunk_idx > Len(st.chunk_offsets)
            THEN IF last THEN Ok(frames)
                 ELSE eager_frames(s, st, timescale, map_idx + 1, next_first_chunk, 0,
                                   current_sample, frames)
            ELSE IF \/ chunk >= Len(st.chunk_offsets)
                    \/ sample_in_chunk >= entry.samples_per_chunk
                    \/ current_sample >= Len(st.sample_sizes)
            THEN eager_frames(s, st, timescale, map_idx, chunk_idx + 1, 0,
                              current_sample, frames)
            ELSE LET f == eager_sample(s, st, timescale, st.chunk_offsets[chunk + 1],
                                       sample_in_chunk, current_sample)
                 IN IF IsOk(f)
                    THEN eager_frames(s, st, timescale, map_idx, chunk_idx,
                                      sample_in_chunk + 1, current_sample + 1,
                                      Append(frames, Val(f)))
                    ELSE f

extract_animation_frames(s, st, timescale) ==
    IF Len(st.sample_to_chunk) = 0
    THEN Ok(<< >>)
    ELSE eager_frames(s, st, timescale, 0, st.sample_to_chunk[1].first_chunk, 0, 0, << >>)

AnimationConfig(loop_count, frames) == [loop_count |-> loop_count, frames |-> frames]

\* read_avif_with_config 2163-2185
eager_animation_step(s) ==
    IF ~IsSome(s.animation_data)
    THEN [s EXCEPT !.pc = "done", !.result = Some(Ok(Get(s.context)))]
    ELSE LET anim == Get(s.animation_data)
             limit == validate_animation_frames(s.config, Len(anim.sample_table.sample_sizes))
             frames == extract_animation_frames(s, anim.sample_table, anim.media_timescale)
         IN IF ~IsOk(limit)
            THEN fail(s, limit)
            ELSE IF frames.tag = "Panic"
            THEN fail(s, frames)
            ELSE IF IsOk(frames) /\ Len(Val(frames)) > 0
            THEN [s EXCEPT !.pc = "done",
                           !.context = Some([Get(s.context) EXCEPT
                                               !.animation = Some(AnimationConfig(0, Val(frames)))]),
                           !.result = Some(Ok([Get(s.context) EXCEPT
                                               !.animation = Some(AnimationConfig(0, Val(frames)))]))]
            ELSE [s EXCEPT !.pc = "done", !.result = Some(Ok(Get(s.context)))]

(***************************************************************************)
(* The actions: each applies one step to the variables                     *)
(***************************************************************************)
State ==
    [overflow_checks |-> overflow_checks, input |-> input, config |-> config,
     stop |-> stop, api |-> api, pc |-> pc, iter |-> iter, meta |-> meta,
     mdats |-> mdats, animation_data |-> animation_data, tracker |-> tracker,
     tiles_with_index |-> tiles_with_index, context |-> context, parser |-> parser,
     result |-> result, call |-> call, ret |-> ret]

Becomes(s) ==
    /\ overflow_checks' = s.overflow_checks /\ input' = s.input /\ config' = s.config
    /\ stop' = s.stop /\ api' = s.api /\ pc' = s.pc /\ iter' = s.iter /\ meta' = s.meta
    /\ mdats' = s.mdats /\ animation_data' = s.animation_data /\ tracker' = s.tracker
    /\ tiles_with_index' = s.tiles_with_index /\ context' = s.context
    /\ parser' = s.parser /\ result' = s.result /\ call' = s.call /\ ret' = s.ret
    /\ UNCHANGED frames_iter

InLoop == pc = "boxes" /\ iter < Len(input)
NextBoxName == input[iter + 1].box.name

ReadFtyp == pc = "ftyp" /\ Becomes(ftyp_step(State))
Cancelled == InLoop /\ ~stop_passes(stop) /\ Becomes(box_step(State))
TopMeta == InLoop /\ stop_passes(stop) /\ NextBoxName = "meta" /\ Becomes(box_step(State))
TopMoov == InLoop /\ stop_passes(stop) /\ NextBoxName = "moov" /\ Becomes(box_step(State))
TopMdat == InLoop /\ stop_passes(stop) /\ NextBoxName = "mdat" /\ Becomes(box_step(State))
TopSkip ==
    /\ InLoop /\ stop_passes(stop) /\ NextBoxName \notin {"meta", "moov", "mdat"}
    /\ Becomes(box_step(State))
ParseFinish == pc = "boxes" /\ iter = Len(input) /\ Becomes(finish_step(State))
BuildItems == pc = "build_items" /\ Becomes(build_items_step(State))
BuildFinish == pc = "build_finish" /\ Becomes(build_finish_step(State))
EagerItems == pc = "eager_items" /\ Becomes(eager_items_step(State))
EagerAnimation == pc = "eager_animation" /\ Becomes(eager_animation_step(State))

\* the step the entry point takes next in state s, and its run to the end
Step(s) ==
    CASE s.pc = "ftyp" -> ftyp_step(s)
      [] s.pc = "boxes" /\ s.iter < Len(s.input) -> box_step(s)
      [] s.pc = "boxes" /\ s.iter >= Len(s.input) -> finish_step(s)
      [] s.pc = "build_items" -> build_items_step(s)
      [] s.pc = "build_finish" -> build_finish_step(s)
      [] s.pc = "eager_items" -> eager_items_step(s)
      [] s.pc = "eager_animation" -> eager_animation_step(s)
      [] OTHER -> s
RECURSIVE RunUntil(_, _)
RunUntil(s, pcs) == IF s.pc = "done" \/ s.pc \in pcs THEN s ELSE RunUntil(Step(s), pcs)
Run(s) == RunUntil(s, {})

\* the entry point `entry` called on `file` with config `cfg` and token `token`
Start(checks, file, cfg, token, entry) ==
    [overflow_checks |-> checks, input |-> file, config |-> cfg, stop |-> token,
     api |-> entry, pc |-> "ftyp", iter |-> 0, meta |-> None, mdats |-> << >>,
     animation_data |-> None, tracker |-> NewTracker, tiles_with_index |-> << >>,
     context |-> None, parser |-> None, result |-> None, call |-> NoCall, ret |-> None]

(***************************************************************************)
(* SpecParse: the entry points on whole files                              *)
(***************************************************************************)
\* payload bytes of the meta and moov boxes of the files
ContainerLen == 4
\* the peak memory limit of the configs that set one
PeakLimit == 3
\* the largest frame and tile count limit of the configs
MaxLimit == 3

Sized(name, length) == TopLevel(OtherBox(name), length, FALSE)
ToEof(name, length) == TopLevel(OtherBox(name), length, TRUE)
Ftyp == Sized("ftyp", 8)
Meta == Sized("meta", ContainerLen)
Moov == Sized("moov", ContainerLen)

\* the box layouts of the files
Skeletons ==
    { << Ftyp, Meta, Sized("mdat", PeakLimit + 1) >>,
      << Ftyp, Meta, ToEof("mdat", PeakLimit + 1) >>,
      << Ftyp, Sized("mdat", 2), Meta >>,
      << Ftyp, Sized("free", 2), Meta, Sized("mdat", PeakLimit + 1) >>,
      << Ftyp, Meta, Meta, Sized("mdat", PeakLimit + 1) >>,
      << Ftyp, Sized("mdat", PeakLimit + 1) >>,
      << Meta, Sized("mdat", PeakLimit + 1) >>,
      << Ftyp, Meta, Sized("mdat", 2), Sized("mdat", 2) >>,
      << Ftyp, Meta, Sized("mdat", PeakLimit + 1), Sized("free", 2) >>,
      << Ftyp, Meta >> }
GridSkeletons == { << Ftyp, Meta, Sized("mdat", PeakLimit + 1) >> }
MoovSkeletons ==
    { << Ftyp, Meta, Moov, Sized("mdat", PeakLimit + 1) >>, << Ftyp, Moov, Meta, ToEof("mdat", PeakLimit + 1) >> }

\* offset of the payload of the first mdat of a layout
first_mdat(sk) == payload_offset(sk, find(sk, LAMBDA b : b.box.name = "mdat"))

Fill(sk, brand, metabox, moovbox) ==
    [i \in 1..Len(sk) |->
        [sk[i] EXCEPT !.box = CASE sk[i].box.name = "ftyp" -> FtypBox(brand)
                                [] sk[i].box.name = "meta" -> metabox
                                [] sk[i].box.name = "moov" -> moovbox
                                [] sk[i].box.name = "mdat" -> MdatBox
                                [] OTHER -> sk[i].box]]

Av01Infos == IinfBox(0, << InfeBox(2, 1, "av01"), InfeBox(2, 2, "av01") >>)
\* still images whose data starts at offset off
StillMetas(off) ==
    { MetaBox(0, << PitmBox(0, 1), Av01Infos,
                    IlocBox(0, << IlocItem(1, 0, 0, << IlocExtent(off, 2) >>) >>) >>),
      MetaBox(0, << PitmBox(0, 1), Av01Infos,
                    IlocBox(0, << IlocItem(1, 0, off, << IlocExtent(0, 0) >>) >>) >>),
      MetaBox(0, << OtherBox("hdlr"), PitmBox(0, 1), Av01Infos,
                    IrefBox(0, << RefBox("auxl", 2, << 1 >>), RefBox("prem", 1, << 2 >>) >>),
                    IprpBox(<< IpcoBox(<< AuxcBox(0, << ALPHA_URN >>) >>),
                               IpmaBox(<< Association(2, 1) >>) >>),
                    IlocBox(0, << IlocItem(2, 0, 0, << IlocExtent(off + 1, 1) >>),
                                  IlocItem(1, 0, 0, << IlocExtent(off, 1),
                                                       IlocExtent(off + 2, 1) >>) >>) >>),
      MetaBox(1, << PitmBox(0, 1) >>) }

\* still images with auxiliary items 2 and 3: two auxl references to the
\* primary item in either order, an auxl reference to another item, a
\* single one; auxiliary types with and without subtype, other types, types
\* that only start with the alpha URN, and an auxC that is not the first
\* property of its item
AlphaInfos ==
    IinfBox(0, << InfeBox(2, 1, "av01"), InfeBox(2, 2, "av01"), InfeBox(2, 3, "av01") >>)
AlphaRefs ==
    { << RefBox("auxl", 2, << 1 >>), RefBox("auxl", 3, << 1 >>), RefBox("prem", 1, << 3 >>) >>,
      << RefBox("auxl", 3, << 1 >>), RefBox("auxl", 2, << 1 >>), RefBox("prem", 1, << 3 >>) >>,
      << RefBox("auxl", 2, << 3 >>), RefBox("prem", 1, << 2 >>) >>,
      << RefBox("prem", 1, << 2 >>), RefBox("auxl", 2, << 1 >>) >> }
AlphaProps ==
    { IprpBox(<< IpcoBox(<< AuxcBox(0, << "urn:mpeg:hevc:2015:auxid:2" >>),
                            AuxcBox(0, << ALPHA_URN, NUL, "sub" >>) >>),
                 IpmaBox(<< Association(2, 1), Association(3, 2) >>) >>),
      IprpBox(<< IpcoBox(<< AuxcBox(0, << ALPHA_URN >>), AuxcBox(0, << ALPHA_URN, NUL >>) >>),
                 IpmaBox(<< Association(2, 1), Association(3, 2) >>) >>),
      IprpBox(<< IpcoBox(<< AuxcBox(0, << ALPHA_URN, "x" >>), AuxcBox(0, << NUL, ALPHA_URN >>) >>),
                 IpmaBox(<< Association(2, 1), Association(3, 2) >>) >>),
      IprpBox(<< IpcoBox(<< IspeBox(1000, 1000), AuxcBox(0, << ALPHA_URN >>) >>),
                 IpmaBox(<< Association(2, 1), Association(2, 2), Association(1, 1) >>) >>) }
AlphaMetas(off) ==
    { MetaBox(0, << PitmBox(0, 1), AlphaInfos, IrefBox(0, refs), props,
                    IlocBox(0, << IlocItem(1, 0, 0, << IlocExtent(off, 1) >>),
                                  IlocItem(2, 0, 0, << IlocExtent(off + 1, 1) >>),
                                  IlocItem(3, 0, 0, << IlocExtent(off + 2, 1) >>) >>) >>) :
        refs \in AlphaRefs, props \in AlphaProps }

GridInfos ==
    IinfBox(0, << InfeBox(2, 1, "grid"), InfeBox(2, 2, "av01"),
                  InfeBox(2, 3, "av01"), InfeBox(2, 4, "av01") >>)
\* the dimg references of the grids: one box, several boxes (whose indices
\* start again at 0), ids ascending and not
GridRefs ==
    { << RefBox("dimg", 1, << 2, 3 >>) >>,
      << RefBox("dimg", 1, << 3, 2 >>) >>,
      << RefBox("dimg", 1, << 3 >>), RefBox("dimg", 1, << 2 >>) >>,
      << RefBox("dimg", 1, << 2, 3, 4 >>) >>,
      << RefBox("dimg", 1, << 4, 2 >>), RefBox("dimg", 1, << 3 >>) >>,
      << RefBox("dimg", 1, << 2, 3 >>), RefBox("auxl", 2, << 1 >>), RefBox("dimg", 1, << 4 >>) >>,
      << RefBox("auxl", 2, << 1 >>) >> }
\* grid dimensions: explicit ImageGrid, ispe of grid and tiles, none, ispe
\* after a pixi of the same item, ispe of the grid no multiple of the tiles'
GridProps ==
    { IprpBox(<< IpcoBox(<< GridBox(0, 1, 2, 2000, 1000) >>),
                 IpmaBox(<< Association(1, 1) >>) >>),
      IprpBox(<< IpcoBox(<< IspeBox(2000, 1000), IspeBox(1000, 1000) >>),
                 IpmaBox(<< Association(1, 1), Association(2, 2), Association(3, 2),
                            Association(4, 2) >>) >>),
      IprpBox(<< IpcoBox(<< OtherBox("colr") >>), IpmaBox(<< Association(1, 1) >>) >>),
      IprpBox(<< IpcoBox(<< PixiBox(0, << 8, 8, 8 >>), IspeBox(2000, 1000), IspeBox(1000, 1000) >>),
                 IpmaBox(<< Association(1, 1), Association(1, 2), Association(2, 3),
                            Association(3, 3), Association(4, 3) >>) >>),
      IprpBox(<< IpcoBox(<< IspeBox(2000, 1000), IspeBox(1500, 1000) >>),
                 IpmaBox(<< Association(1, 1), Association(2, 2), Association(3, 2),
                            Association(4, 2) >>) >>) }
\* tile data: one byte each at off, off + 1, off + 2; or every tile the whole
\* mdat; or the last tile without iloc entry
GridLocs(off) ==
    { << IlocItem(2, 0, 0, << IlocExtent(off, 1) >>), IlocItem(3, 0, 0, << IlocExtent(off + 1, 1) >>),
         IlocItem(4, 0, off, << IlocExtent(2, 1) >>) >>,
      << IlocItem(4, 0, off, << IlocExtent(0, 0) >>), IlocItem(3, 0, off, << IlocExtent(0, 0) >>),
         IlocItem(2, 0, off, << IlocExtent(0, 0) >>) >>,
      << IlocItem(2, 0, 0, << IlocExtent(off, 1) >>), IlocItem(3, 0, 0, << IlocExtent(off + 1, 1) >>) >> }
GridMetas(off) ==
    { MetaBox(0, << PitmBox(0, 1), GridInfos, IrefBox(0, refs), props, IdatBox(2),
                    IlocBox(1, << IlocItem(1, 1, 0, << IlocExtent(0, 2) >>) >> \o locs) >>) :
        refs \in GridRefs, props \in GridProps, locs \in GridLocs(off) }

Stts == << TimeToSampleEntry(MaxSamples, 100) >>
Track(timescale, stsc, stsz, stco) ==
    TrakBox(Some(MdiaBox(timescale, Some(StblBox(Stts, stsc, stsz, stco)))))
\* a track with the given id, handler type, edit list and track reference
Described(trak, track_id, hdlr, edts, tref) ==
    [trak EXCEPT !.track_id = track_id, !.edts = edts, !.tref = tref,
                 !.mdia = Some([Get(trak.mdia) EXCEPT !.hdlr = hdlr])]
ColourTrack(off, track_id, hdlr, edts) ==
    Described(Track(Some(MILLIS), << SampleToChunkEntry(1, 2) >>, StszBox(0, 2, << 1, 2 >>), << off >>),
              track_id, hdlr, edts, None)
AudioTrack(off, track_id) ==
    Described(Track(Some(100), << SampleToChunkEntry(1, 1) >>, StszBox(1, 1, << >>), << off + 1 >>),
              track_id, "soun", None, None)
\* animations with described tracks: a play-once and an endless edit list,
\* an auxiliary alpha track, an audio track after and before the video track
DescribedMoovBoxes(off) ==
    { MoovBox(<< ColourTrack(off, 1, "pict", Some(ElstBox(0))) >>),
      MoovBox(<< ColourTrack(off, 1, "pict", Some(ElstBox(1))),
                 Described(Track(Some(MILLIS), << SampleToChunkEntry(1, 2) >>,
                                 StszBox(1, 2, << >>), << off + 3 >>),
                           2, "auxv", None, Some(TrefBox("auxl", << 1 >>))) >>),
      MoovBox(<< ColourTrack(off, 1, "vide", Some(ElstBox(1))), AudioTrack(off, 2) >>),
      MoovBox(<< AudioTrack(off, 1), ColourTrack(off, 2, "pict", None) >>) }
\* animations whose samples start at offset off
MoovBoxes(off) ==
    { MoovBox(<< OtherBox("mvhd"),
                 Track(Some(MILLIS), << SampleToChunkEntry(1, 2) >>,
                       StszBox(0, 2, << 1, 2 >>), << off >>) >>),
      MoovBox(<< TrakBox(None),
                 Track(None, << SampleToChunkEntry(1, 1) >>,
                       StszBox(1, MaxSamples, << >>), [i \in 1..MaxSamples |-> off + i - 1]),
                 Track(Some(MILLIS), << SampleToChunkEntry(1, 1) >>,
                       StszBox(1, 1, << >>), << off >>) >>),
      MoovBox(<< OtherBox("mvhd") >>),
      MoovBox(<< Track(Some(MILLIS), << SampleToChunkEntry(1, 2) >>,
                       StszBox(0, 2, << 1 >>), << off >>) >>),
      MoovBox(<< Track(Some(MILLIS), << SampleToChunkEntry(1, 2) >>,
                       StszBox(0, 2, << 1, 1 >>), << U64_MAX >>) >>) }

\* an animation of STOP_INTERVAL + 1 one-byte samples, one per chunk, every
\* chunk at offset off
LongMoovBoxes(off) ==
    { MoovBox(<< Track(Some(MILLIS), << SampleToChunkEntry(1, 1) >>,
                       StszBox(1, STOP_INTERVAL + 1, << >>),
                       [i \in 1..(STOP_INTERVAL + 1) |-> off]) >>) }

Files ==
    { << >> } \cup
    UNION { { Fill(sk, "avis", m, v) :
                m \in { MetaBox(0, << PitmBox(0, 1), Av01Infos,
                                       IlocBox(0, << IlocItem(1, 0, 0,
                                            << IlocExtent(first_mdat(sk), 2) >>) >>) >>) },
                v \in LongMoovBoxes(first_mdat(sk)) } :
            sk \in { << Ftyp, Meta, Moov, Sized("mdat", PeakLimit + 1) >> } } \cup
    UNION { { Fill(sk, "avif", m, MoovBox(<< >>)) : m \in StillMetas(first_mdat(sk)) } :
            sk \in Skeletons } \cup
    UNION { { Fill(sk, "heic", m, MoovBox(<< >>)) : m \in StillMetas(first_mdat(sk)) } :
            sk \in GridSkeletons } \cup
    UNION { { Fill(sk, "avif", m, MoovBox(<< >>)) : m \in GridMetas(first_mdat(sk)) } :
            sk \in GridSkeletons } \cup
    UNION { { Fill(sk, "avif", m, MoovBox(<< >>)) : m \in AlphaMetas(first_mdat(sk)) } :
            sk \in GridSkeletons } \cup
    UNION { { Fill(sk, "avis", m, v) :
                m \in { x \in StillMetas(first_mdat(sk)) : x.version = 0 },
                v \in MoovBoxes(first_mdat(sk)) \cup DescribedMoovBoxes(first_mdat(sk)) } :
            sk \in MoovSkeletons }

Configs ==
    { UnlimitedConfig, [UnlimitedConfig EXCEPT !.peak_memory_limit = Some(PeakLimit)] } \cup
    { [UnlimitedConfig EXCEPT !.total_megapixels_limit = Some(n)] : n \in 1..2 } \cup
    { [UnlimitedConfig EXCEPT !.max_animation_frames = Some(n)] : n \in 1..MaxLimit } \cup
    { [UnlimitedConfig EXCEPT !.max_grid_tiles = Some(n)] : n \in 1..MaxLimit }

Tokens == { Unstoppable, CancelAfter(0), CancelAfter(2) }
ParserEntryPoints ==
    { "from_bytes_with_config", "from_owned_with_config", "from_reader_with_config" }
EntryPoints == { "read_avif_with_config" } \cup ParserEntryPoints

\* every config without cancellation, and cancellation without limits
Runs == (Configs \X { Unstoppable }) \cup ({ UnlimitedConfig } \X Tokens)
\* CancelAfter(3) passes the check of each of the three boxes after ftyp and
\* returns Cancelled from then on: a run of the files with more than
\* STOP_INTERVAL frames
HasLongTrack(file) ==
    \E i \in 1..Len(file) :
        /\ file[i].box.name = "moov"
        /\ file[i].box \in LongMoovBoxes(first_mdat(file))
\* a file without a track runs with the tightest frame count limit only
HasTrack(file) ==
    \E i \in 1..Len(file) : file[i].box.name = "moov" /\ file[i].box.children # << >>
\* and a file without item references with the tightest tile count limit only
HasTiles(file) ==
    \E i \in 1..Len(file) :
        /\ file[i].box.name = "meta"
        /\ \E j \in 1..Len(file[i].box.children) : file[i].box.children[j].name = "iref"
RunsOf(file) ==
    { run \in Runs :
        /\ HasTrack(file) \/ run[1].max_animation_frames \in { None, Some(1) }
        /\ HasTiles(file) \/ run[1].max_grid_tiles \in { None, Some(1) } }
        \cup IF HasLongTrack(file) THEN { << UnlimitedConfig, CancelAfter(3) >> } ELSE {}

Started(file, cfg, token, entry) ==
    /\ input = file
    /\ config = cfg
    /\ stop = token
    /\ api = entry
    /\ pc = "ftyp"
    /\ iter = 0
    /\ meta = None
    /\ mdats = << >>
    /\ animation_data = None
    /\ tracker = NewTracker
    /\ tiles_with_index = << >>
    /\ context = None
    /\ parser = None
    /\ result = None
    /\ call = NoCall
    /\ ret = None
    /\ frames_iter = None

InitParse ==
    /\ overflow_checks \in BOOLEAN
    /\ \E file \in Files : \E run \in RunsOf(file), entry \in EntryPoints :
          Started(file, run[1], run[2], entry)

\* the tile loop of to_avif_data (1306-1311), from tile i on
RECURSIVE copy_tiles(_, _, _)
copy_tiles(p, i, grid_tiles) ==
    IF i >= Len(p.tiles)
    THEN Ok(grid_tiles)
    ELSE LET data == tile_data(p, i)
         IN IF IsOk(data) THEN copy_tiles(p, i + 1, Append(grid_tiles, Val(data).bytes))
            ELSE data
\* the frame loop of to_avif_data (1315-1320), from frame i on
RECURSIVE copy_frames(_, _, _, _)
copy_frames(p, i, frame_count, copied) ==
    IF i >= frame_count
    THEN Ok(copied)
    ELSE LET frame_ref == frame(p, i)
         IN IF IsOk(frame_ref)
            THEN copy_frames(p, i + 1, frame_count,
                             Append(copied, AnimationFrame(Val(frame_ref).data.bytes,
                                                           Val(frame_ref).duration_ms)))
            ELSE frame_ref
\* AvifParser::to_avif_data
to_avif_data(p) ==
    LET primary == primary_data(p)
        alpha == alpha_data(p)
        grid_tiles == copy_tiles(p, 0, << >>)
        info == animation_info(p)
        copied == copy_frames(p, 0, Get(info).frame_count, << >>)
    IN IF ~IsOk(primary) THEN primary
       ELSE IF IsSome(alpha) /\ ~IsOk(Get(alpha)) THEN Get(alpha)
       ELSE IF ~IsOk(grid_tiles) THEN grid_tiles
       ELSE IF IsSome(info) /\ ~IsOk(copied) THEN copied
       ELSE Ok(AvifData(Val(primary).bytes,
                        IF IsSome(alpha) THEN Some(Val(Get(alpha)).bytes) ELSE None,
                        p.premultiplied_alpha, p.grid_config, Val(grid_tiles),
                        IF IsSome(info)
                        THEN Some(AnimationConfig(Get(info).loop_count, Val(copied)))
                        ELSE None))

ToAvifData ==
    /\ pc = "done" /\ IsSome(parser)
    /\ call' = Call("to_avif_data", 0)
    /\ ret' = Some(to_avif_data(Get(parser)))
    /\ ParsePassUnchanged

\* the accessors without data access: animation_info, grid_config,
\* grid_tile_count, premultiplied_alpha
metadata(p, op) ==
    CASE op = "animation_info" -> animation_info(p)
      [] op = "grid_config" -> p.grid_config
      [] op = "grid_tile_count" -> Len(p.tiles)
      [] op = "premultiplied_alpha" -> p.premultiplied_alpha
MetadataAccessors ==
    { "animation_info", "grid_config", "grid_tile_count", "premultiplied_alpha" }
Metadata ==
    /\ pc = "done" /\ IsSome(parser)
    /\ \E op \in MetadataAccessors :
          /\ call' = Call(op, 0)
          /\ ret' = Some(metadata(Get(parser), op))
    /\ ParsePassUnchanged

NextParse ==
    \/ ReadFtyp \/ Cancelled \/ TopMeta \/ TopMoov \/ TopMdat \/ TopSkip \/ ParseFinish
    \/ BuildItems \/ BuildFinish \/ EagerItems \/ EagerAnimation
    \/ PrimaryData \/ AlphaData \/ TileData \/ Frame \/ Frames \/ FramesNext
    \/ ToAvifData \/ Metadata

SpecParse == InitParse /\ [][NextParse]_vars

(***************************************************************************)
(* Claims on SpecParse                                                     *)
(***************************************************************************)
\* the same call with a token that never stops, run to its end
Unstopped == Run(Start(overflow_checks, input, config, Unstoppable, api))
Succeeded(s) == IsSome(s.result) /\ IsOk(Get(s.result))
ParseDone == pc = "done"
AlwaysCancelled == stop.cancel_after = Some(0)

\* C3: an input that parses successfully with a never-stopping token returns
\* Stopped(Cancelled) with a token whose check always returns Cancelled, and
\* until then no meta, moov or mdat content has been processed: only the ftyp
\* box and the header of the box after it have been read.
C3_CancelledBeforeContent ==
    (AlwaysCancelled /\ Succeeded(Unstopped))
        => /\ iter <= 2
           /\ meta = None
           /\ mdats = << >>
           /\ animation_data = None
           /\ tracker = NewTracker
           /\ parser = None
           /\ ParseDone => /\ result = Some(Stopped("Cancelled"))
                           /\ iter = 2

C3_Witness ==
    /\ AlwaysCancelled
    /\ Succeeded(Unstopped)
    /\ ParseDone
    /\ result = Some(Stopped("Cancelled"))
    /\ input[2].box.name = "mdat"

\* the same call without the limit `field` of the config, run to its end
Without(field) ==
    Run(Start(overflow_checks, input, [config EXCEPT ![field] = None], stop, api))

\* C4: with a peak memory limit every non-empty file that would otherwise
\* parse successfully gives ResourceLimitExceeded("peak memory limit
\* exceeded"), whichever configurable entry point is used.
C4_PeakLimitRejects ==
    (/\ ParseDone
     /\ IsSome(config.peak_memory_limit)
     /\ input # << >>
     /\ file_len(input) > Get(config.peak_memory_limit)
     /\ Succeeded(Without("peak_memory_limit")))
        => result = Some(ResourceLimitExceeded("peak memory limit exceeded"))

\* C5: limits are checked before the allocation they guard: no list of
\* sample sizes longer than max_animation_frames is ever built, and no tile
\* list longer than max_grid_tiles is ever collected.
C5_LimitsBeforeAllocation ==
    /\ (IsSome(config.max_animation_frames) /\ IsSome(animation_data))
          => Len(Get(animation_data).sample_table.sample_sizes)
                <= Get(config.max_animation_frames)
    /\ IsSome(config.max_grid_tiles)
          => Len(tiles_with_index) <= Get(config.max_grid_tiles)

\* the output dimensions of a grid: the explicit ImageGrid property, else the
\* ispe of the grid item
grid_output(m) ==
    IF IsSome(explicit_grid(m))
    THEN Some(<< Get(explicit_grid(m)).output_width, Get(explicit_grid(m)).output_height >>)
    ELSE IF IsSome(ispe_of(m, m.primary_item_id))
         THEN Some(<< Get(ispe_of(m, m.primary_item_id)).width,
                      Get(ispe_of(m, m.primary_item_id)).height >>)
         ELSE None

\* C7: a grid whose output dimensions exceed total_megapixels_limit is
\* rejected with ResourceLimitExceeded("total megapixels limit exceeded"),
\* the dimensions coming from an ImageGrid property or from the grid item's
\* ispe, in read_avif_with_config and in the AvifParser constructors.
C7_MegapixelsRejected ==
    (/\ ParseDone
     /\ IsSome(config.total_megapixels_limit)
     /\ Succeeded(Without("total_megapixels_limit"))
     /\ is_grid(Get(meta))
     /\ IsSome(grid_output(Get(meta)))
     /\ (Get(grid_output(Get(meta)))[1] * Get(grid_output(Get(meta)))[2])
            \div MEGAPIXEL > Get(config.total_megapixels_limit))
        => result = Some(ResourceLimitExceeded("total megapixels limit exceeded"))

\* the call of this behaviour from its start up to the header of box k
\* (k = Len(input) + 1: up to the end of the loop over the boxes), or up to
\* the error that ends it earlier
RECURSIVE RunToBox(_, _)
RunToBox(s, k) ==
    IF s.pc = "boxes" /\ s.iter >= k - 1 THEN s
    ELSE IF s.pc \notin {"ftyp", "boxes"} THEN s
    ELSE RunToBox(Step(s), k)
ThisCall == Start(overflow_checks, input, config, stop, api)
ThroughBoxes == RunToBox(ThisCall, Len(input) + 1)
\* the same call with the limit `field` of the config set to `limit`
WithLimit(field, limit) ==
    Run(Start(overflow_checks, input, [config EXCEPT ![field] = limit], stop, api))

\* the dimg references from the primary item, as positions in the list of
\* references of the file
Dimg(m) ==
    { k \in 1..Len(m.item_references) :
        /\ m.item_references[k].from_item_id = m.primary_item_id
        /\ m.item_references[k].item_type = "dimg" }
SampleCount == Len(Get(animation_data).sample_table.sample_sizes)
ItemsResolved(s) ==
    /\ s.pc = "build_items"
    /\ IsOk(get_item_extents(Get(s.meta), Get(s.meta).primary_item_id))
    /\ IsSome(alpha_item_id(Get(s.meta)))
          => IsOk(get_item_extents(Get(s.meta), Get(alpha_item_id(Get(s.meta)))))
LargerLimits(limit) == { Some(n) : n \in (Get(limit) + 1)..(MaxLimit + 1) } \cup { None }
SameOutcome(s) == s.result = result /\ s.parser = parser

\* C6: from_bytes_with_config returns ResourceLimitExceeded("grid tile count
\* limit exceeded") exactly when the primary item is a grid with more dimg
\* references than max_grid_tiles, and ResourceLimitExceeded("animation frame
\* count limit exceeded") exactly when the sample count exceeds
\* max_animation_frames, no earlier error occurring; a parse that succeeds
\* with a limit succeeds with the same result for every larger limit and for
\* no limit.
C6_LimitsMonotone ==
    (ParseDone /\ api = "from_bytes_with_config" /\ ~IsSome(stop.cancel_after))
        => /\ result = Some(ResourceLimitExceeded("grid tile count limit exceeded"))
                <=> /\ IsSome(config.max_grid_tiles)
                    /\ ItemsResolved(RunUntil(ThisCall, {"build_items"}))
                    /\ is_grid(Get(meta))
                    /\ Cardinality(Dimg(Get(meta))) > Get(config.max_grid_tiles)
           /\ result = Some(ResourceLimitExceeded("animation frame count limit exceeded"))
                <=> /\ IsSome(config.max_animation_frames)
                    /\ RunUntil(ThisCall, {"build_finish"}).pc = "build_finish"
                    /\ IsSome(animation_data)
                    /\ SampleCount > Get(config.max_animation_frames)
           /\ Succeeded(State)
                => /\ IsSome(config.max_grid_tiles)
                        => \A limit \in LargerLimits(config.max_grid_tiles) :
                              SameOutcome(WithLimit("max_grid_tiles", limit))
                   /\ IsSome(config.max_animation_frames)
                        => \A limit \in LargerLimits(config.max_animation_frames) :
                              SameOutcome(WithLimit("max_animation_frames", limit))

C6_Witness ==
    /\ ParseDone /\ api = "from_bytes_with_config"
    /\ IsSome(animation_data)
    /\ config.max_animation_frames = Some(SampleCount)
    /\ Succeeded(State)
    /\ ~Succeeded(WithLimit("max_animation_frames", Some(SampleCount - 1)))

C6_WitnessTiles ==
    /\ ParseDone /\ api = "from_bytes_with_config"
    /\ result = Some(ResourceLimitExceeded("grid tile count limit exceeded"))

MetaCount == Cardinality({ k \in 1..Len(input) : input[k].box.name = "meta" })
SecondMeta ==
    CHOOSE k \in 1..Len(input) :
        /\ input[k].box.name = "meta"
        /\ Cardinality({ j \in 1..(k - 1) : input[j].box.name = "meta" }) = 1
IsInvalidData(r) == r # None /\ Get(r).tag = "Err" /\ Get(r).kind = "InvalidData"
Skipped ==
    /\ pc = "boxes" /\ iter < Len(input) /\ stop_passes(stop)
    /\ input[iter + 1].box.name \notin {"meta", "moov", "mdat"}

C8_Requirements ==
    (ParseDone /\ ~IsSome(stop.cancel_after))
        => /\ Succeeded(State)
                => /\ input # << >>
                   /\ input[1].box.name = "ftyp"
                   /\ input[1].box.major_brand \in {"avif", "avis"}
                   /\ MetaCount = 1
           /\ (input # << >> /\ input[1].box.name # "ftyp") => IsInvalidData(result)
           /\ (/\ input # << >> /\ input[1].box.name = "ftyp"
               /\ input[1].box.major_brand \notin {"avif", "avis"}) => IsInvalidData(result)
           /\ (MetaCount = 0 /\ ThroughBoxes.pc = "boxes")
                => result = Some(InvalidData("missing meta"))
           /\ (MetaCount >= 2 /\ RunToBox(ThisCall, SecondMeta).pc = "boxes")
                => IsInvalidData(result)

\* C8: a parse succeeds only if the first top-level box is ftyp with major
\* brand avif or avis and exactly one meta box occurs at top level; a
\* different first box, a different major brand, no meta box and a second
\* meta box each give InvalidData; a top-level box of unknown type is skipped
\* and changes nothing of what the parse has gathered.
C8_FtypAndOneMeta ==
    /\ []C8_Requirements
    /\ [][Skipped => /\ pc' = "boxes" /\ iter' = iter + 1
                     /\ UNCHANGED <<meta, mdats, animation_data, tracker, tiles_with_index,
                                    context, parser, result>>]_vars

C8_Witness ==
    /\ ParseDone /\ ~IsSome(stop.cancel_after)
    /\ MetaCount = 2
    /\ RunToBox(ThisCall, SecondMeta).pc = "boxes"
    /\ IsInvalidData(result)

\* the tile ids in the order of the claim: ascending reference_index,
\* references with the same index in the order the file declares them
DeclaredBefore(m, j, k) ==
    \/ m.item_references[j].reference_index < m.item_references[k].reference_index
    \/ /\ m.item_references[j].reference_index = m.item_references[k].reference_index
       /\ j < k
ExpectedTiles(m) ==
    [i \in 1..Cardinality(Dimg(m)) |->
        m.item_references[CHOOSE k \in Dimg(m) :
            Cardinality({ j \in Dimg(m) : DeclaredBefore(m, j, k) }) = i - 1].to_item_id]
\* the data of an item, as the eager reader extracts it from the mdat boxes
\* it has read
ItemAlone(m, item_id) ==
    extract_item_data(m, m.iloc_items[find(m.iloc_items, LAMBDA loc : loc.item_id = item_id)],
                      1, << >>, ThroughBoxes.mdats).res

\* C10: for a grid primary item, tile_data(i) and grid_tiles[i] of the eager
\* result are the data of the i-th dimg reference from the primary item in
\* the order of ascending reference_index, references with equal index in
\* declaration order, whatever the item ids are.
C10_TileOrder ==
    (ParseDone /\ Succeeded(State) /\ is_grid(Get(meta)))
        => LET m == Get(meta)
               ids == ExpectedTiles(m)
           IN IF IsEager(State)
              THEN LET tiles == Val(Get(result)).grid_tiles
                   IN /\ Len(tiles) = Len(ids)
                      /\ \A i \in 1..Len(ids) : Ok(tiles[i]) = ItemAlone(m, ids[i])
              ELSE /\ Len(Get(parser).tiles) = Len(ids)
                   /\ \A i \in 1..Len(ids) :
                         Get(parser).tiles[i] = Val(get_item_extents(m, ids[i]))
                   /\ (call.op = "tile_data" /\ call.index < Len(ids))
                         => ret = Some(resolve_item(Get(parser),
                                           Val(get_item_extents(m, ids[call.index + 1]))))

\* the first ispe property associated with an item
associated_ispe(m, item_id) ==
    LET i == find(m.properties, LAMBDA p : /\ p.item_id = item_id
                                           /\ p.property.kind = "ImageSpatialExtents")
    IN IF i = 0 THEN None ELSE Some(m.properties[i].property)
\* the grid layout the claim describes, for the tile ids in tile order
ExpectedGrid(m, ids) ==
    LET G == associated_ispe(m, m.primary_item_id)
        T == IF Len(ids) > 0 THEN associated_ispe(m, ids[1]) ELSE None
    IN IF IsSome(explicit_grid(m))
       THEN Get(explicit_grid(m))
       ELSE IF /\ IsSome(G) /\ IsSome(T)
               /\ Get(G).width % Get(T).width = 0 /\ Get(G).height % Get(T).height = 0
               /\ Get(G).width \div Get(T).width <= U8_MAX
               /\ Get(G).height \div Get(T).height <= U8_MAX
            THEN GridConfig(Get(G).height \div Get(T).height, Get(G).width \div Get(T).width,
                            Get(G).width, Get(G).height)
            ELSE GridConfig(IF Len(ids) < U8_MAX THEN Len(ids) ELSE U8_MAX, 1, 0, 0)
\* grid_config() of the parser, grid_config of the eager result
GridConfigOf ==
    IF IsEager(State) THEN Val(Get(result)).grid_config ELSE Get(parser).grid_config
GridParsed == ParseDone /\ Succeeded(State) /\ is_grid(Get(meta))

\* C11: grid_config() of a grid primary item is the ImageGrid property of the
\* primary item if there is one; else, when the primary item has an ispe G
\* and the first tile an ispe T with G a multiple of T and both quotients at
\* most 255, rows = G.h / T.h, columns = G.w / T.w, output dimensions G; else
\* rows = min(tile_count, 255), columns = 1, output dimensions 0; the eager
\* result carries the same grid_config.
C11_GridConfig ==
    GridParsed => GridConfigOf = Some(ExpectedGrid(Get(meta), ExpectedTiles(Get(meta))))

\* grid_tile_count() of the parser
grid_tile_count == Len(Get(parser).tiles)
\* the rows and columns were read from an ImageGrid property or computed from
\* the ispe properties, not inferred from the number of tiles
LayoutDeclared ==
    /\ IsSome(GridConfigOf)
    /\ \/ IsSome(explicit_grid(Get(meta)))
       \/ Get(GridConfigOf).output_width # 0

\* C12: for a grid whose rows and columns come from an explicit ImageGrid
\* property or from the ispe calculation, grid_tile_count() equals
\* rows * columns after every successful parse.
C12_TileCountIsRowsTimesColumns ==
    (GridParsed /\ ~IsEager(State) /\ LayoutDeclared)
        => grid_tile_count = Get(GridConfigOf).rows * Get(GridConfigOf).columns

\* C13: when the primary item is a grid, primary_data() returns an empty byte
\* sequence and the primary_item of the eager result is empty.
C13_GridPrimaryEmpty ==
    GridParsed
        => IF IsEager(State)
           THEN Val(Get(result)).primary_item = << >>
           ELSE call.op = "primary_data" => ret = Some(Ok(<< >>))

\* the number of tiles of the parser, or of grid_tiles of the eager result
TileCountOf ==
    IF IsEager(State) THEN Len(Val(Get(result)).grid_tiles) ELSE grid_tile_count

\* C14: after every successful parse a present grid_config() implies
\* grid_tile_count() > 0 (eager: grid_tiles is not empty); for a primary item
\* that is no grid, grid_config() is absent, grid_tile_count() is 0 and
\* tile_data(i) is an error for every i.
C14_GridConfigHasTiles ==
    (ParseDone /\ Succeeded(State))
        => /\ IsSome(GridConfigOf) => TileCountOf > 0
           /\ ~is_grid(Get(meta))
                => /\ GridConfigOf = None
                   /\ TileCountOf = 0
                   /\ call.op = "tile_data" => ~IsOk(Get(ret))

\* the auxl references to the primary item from an item with an associated
\* auxC property whose type, the bytes before the first NUL, is the alpha URN
AlphaReferences(m) ==
    { k \in 1..Len(m.item_references) :
        /\ m.item_references[k].item_type = "auxl"
        /\ m.item_references[k].to_item_id = m.primary_item_id
        /\ \E j \in 1..Len(m.properties) :
              /\ m.properties[j].item_id = m.item_references[k].from_item_id
              /\ m.properties[j].property.kind = "AuxiliaryType"
              /\ LET aux_data == m.properties[j].property.aux_data
                     nuls == { n \in 1..Len(aux_data) : aux_data[n] = NUL }
                     before == IF nuls = {} THEN Len(aux_data)
                               ELSE (CHOOSE n \in nuls : \A o \in nuls : n <= o) - 1
                 IN SubSeq(aux_data, 1, before) = << ALPHA_URN >> }
\* the item of the first of them in declaration order
ExpectedAlpha(m) ==
    IF AlphaReferences(m) = {}
    THEN None
    ELSE Some(m.item_references[CHOOSE k \in AlphaReferences(m) :
                                    \A j \in AlphaReferences(m) : k <= j].from_item_id)
ExpectedPremultiplied(m) ==
    /\ IsSome(ExpectedAlpha(m))
    /\ \E k \in 1..Len(m.item_references) :
          /\ m.item_references[k].item_type = "prem"
          /\ m.item_references[k].from_item_id = m.primary_item_id
          /\ m.item_references[k].to_item_id = Get(ExpectedAlpha(m))

\* C15: alpha_data() is present exactly when some item A has an auxl
\* reference to the primary item and an associated auxC property whose type
\* (the bytes before the first NUL) is the alpha URN, and it is the data of
\* the first such A in declaration order of the references;
\* premultiplied_alpha() is true exactly when in addition a prem reference
\* from the primary item to that A exists, so never without an alpha item.
C15_AlphaItem ==
    (ParseDone /\ Succeeded(State) /\ ~IsEager(State))
        => LET m == Get(meta)
               p == Get(parser)
           IN /\ IsSome(p.alpha) <=> IsSome(ExpectedAlpha(m))
              /\ IsSome(p.alpha) => p.alpha = Some(Val(get_item_extents(m, Get(ExpectedAlpha(m)))))
              /\ p.premultiplied_alpha <=> ExpectedPremultiplied(m)
              /\ p.premultiplied_alpha => IsSome(p.alpha)
              /\ call.op = "alpha_data"
                    => /\ IsSome(ret) <=> IsSome(ExpectedAlpha(m))
                       /\ IsSome(ret) => ret = Some(resolve_item(p, Get(p.alpha)))
\* a parsed file with two alpha items whose second auxl reference is declared
\* first, asked for alpha_data(), and one with a premultiplied alpha item
C15_Witness ==
    /\ ParseDone /\ Succeeded(State) /\ ~IsEager(State)
    /\ call.op = "alpha_data" /\ IsSome(ret) /\ IsOk(Get(ret))
    /\ Cardinality(AlphaReferences(Get(meta))) = 2
    /\ ExpectedAlpha(Get(meta)) = Some(3)
    /\ Get(parser).premultiplied_alpha

\* the tracks of the moov box of the file, in file order
Tracks ==
    LET i == find(input, LAMBDA b : b.box.name = "moov")
    IN IF i = 0 THEN << >>
       ELSE SelectSeq(input[i].box.children, LAMBDA c : c.name = "trak")
VIDEO_HANDLERS == { "pict", "vide" }
IsVideoTrack(t) ==
    /\ IsSome(t.mdia) /\ Get(t.mdia).hdlr \in VIDEO_HANDLERS
    /\ IsSome(Get(t.mdia).stbl)
\* the first video track with a sample table, as an index into Tracks, or 0
SelectedTrack == find(Tracks, IsVideoTrack)
\* loop_count of animation_info(), or of the animation of the eager result
LoopCountOf ==
    IF IsEager(State)
    THEN IF IsSome(Val(Get(result)).animation)
         THEN Some(Get(Val(Get(result)).animation).loop_count) ELSE None
    ELSE IF IsSome(animation_info(Get(parser)))
         THEN Some(Get(animation_info(Get(parser))).loop_count) ELSE None
AnimationParsed == ParseDone /\ Succeeded(State) /\ IsSome(LoopCountOf)

\* C16: loop_count of animation_info() and of the eager AnimationConfig is 0
\* when bit 0 of the flags of the selected track's elst box is set, and 1
\* when it is clear.
C16_LoopCountFromElst ==
    (AnimationParsed /\ SelectedTrack # 0 /\ IsSome(Tracks[SelectedTrack].edts))
        => LoopCountOf = Some(IF Get(Tracks[SelectedTrack].edts).flags % 2 = 1 THEN 0 ELSE 1)

\* the animation the reader keeps: that of the parser, or the local
\* animation_data of read_avif_with_config
AnimationOf == IF IsEager(State) THEN animation_data ELSE Get(parser).animation_data
\* timescale and sample table of a track
TrackAnimation(t) ==
    AnimationData(IF IsSome(Get(t.mdia).timescale) THEN Get(Get(t.mdia).timescale)
                  ELSE DEFAULT_TIMESCALE,
                  Val(read_stbl(Get(Get(t.mdia).stbl))))

\* C17: within moov a track whose handler type is not a video or picture
\* handler is skipped wherever it stands: the sample table and the timescale
\* are those of the first track in file order that is a video track with a
\* sample table, and later tracks do not replace it.
C17_FirstVideoTrack ==
    (ParseDone /\ Succeeded(State) /\ Tracks # << >>)
        => AnimationOf = IF SelectedTrack = 0 THEN None
                         ELSE Some(TrackAnimation(Tracks[SelectedTrack]))

\* a track with a track reference of type auxl to the selected colour track
HasAlphaTrack ==
    /\ SelectedTrack # 0
    /\ \E i \in 1..Len(Tracks) :
          /\ IsSome(Tracks[i].tref)
          /\ Get(Tracks[i].tref).type = "auxl"
          /\ \E k \in 1..Len(Get(Tracks[i].tref).track_ids) :
                Get(Tracks[i].tref).track_ids[k] = Tracks[SelectedTrack].track_id
\* what AnimationInfo and FrameRef say about alpha: nothing where the record
\* has no such field
has_alpha(info) == IF "has_alpha" \in DOMAIN info THEN info.has_alpha ELSE FALSE
alpha_slice(f) == IF "alpha_data" \in DOMAIN f THEN f.alpha_data ELSE None

\* C18: with an auxiliary alpha track (a track reference auxl to the colour
\* track) animation_info().has_alpha is true and every frame(i) carries a
\* colour slice and an alpha slice; without such a track has_alpha is false
\* and no frame has alpha data.
C18_AlphaTrack ==
    (ParseDone /\ Succeeded(State) /\ ~IsEager(State) /\ IsSome(animation_info(Get(parser))))
        => /\ has_alpha(Get(animation_info(Get(parser)))) <=> HasAlphaTrack
           /\ (call.op = "frame" /\ IsOk(Get(ret)))
                 => (IsSome(alpha_slice(Val(Get(ret)))) <=> HasAlphaTrack)

\* frame_count of the parser, 0 for a file without animation
FrameCount ==
    IF IsSome(animation_info(Get(parser)))
    THEN Get(animation_info(Get(parser))).frame_count ELSE 0

\* C19: frames() yields exactly frame_count items, the i-th being what
\* frame(i) returns, and None on every call after them; len() and
\* size_hint() are frame_count minus the number of items yielded; for a file
\* without animation frames() yields nothing; frame(i) is an error for every
\* i >= frame_count, so for every i when there is no animation.
C19_FrameIterator ==
    (ParseDone /\ IsSome(parser))
        => /\ (call.op = "frame" /\ call.index >= FrameCount) => Get(ret).tag = "Err"
           /\ IsSome(frames_iter)
                => LET it == Get(frames_iter)
                   IN /\ it.count = FrameCount
                      /\ it.index <= FrameCount
                      /\ len(it) = FrameCount - it.index
                      /\ size_hint(it) = << FrameCount - it.index, Some(FrameCount - it.index) >>
                      /\ call.op = "frames" => it.index = 0
                      /\ call.op = "next"
                            => IF call.index < FrameCount
                               THEN /\ Get(ret) = Some(frame(Get(parser), call.index))
                                    /\ Get(Get(ret)).tag \in {"Ok", "Err"}
                                    /\ it.index = call.index + 1
                               ELSE /\ call.index = FrameCount
                                    /\ Get(ret) = None
                                    /\ it.index = FrameCount

\* the extent starts inside the payload of a recorded mdat and does not run
\* beyond the end of that payload
WhollyInOneMdat(p, e) ==
    \E k \in 1..Len(p.mdat_bounds) :
        LET m == p.mdat_bounds[k]
        IN /\ MdatContains(m, e.start)
           /\ e.kind = "WithLength" => (IsToEof(m) \/ e.end <= m.offset + m.length)

\* C20: an extent of an item with File construction that is not wholly
\* contained in one recorded mdat payload (it starts outside every mdat, or
\* starts inside one and ends beyond its end) makes primary_data(),
\* alpha_data() and tile_data(i) return InvalidData, even when the byte range
\* lies inside the file.
C20_ExtentOutsideMdat ==
    (IsSome(parser) /\ call.op \in {"primary_data", "alpha_data", "tile_data"}
        /\ IsSome(CalledItem) /\ Get(CalledItem).construction_method = "File"
        /\ \E i \in 1..Len(Get(CalledItem).extents) :
              ~WhollyInOneMdat(Get(parser), Get(CalledItem).extents[i]))
        => /\ IsSome(ret)
           /\ Get(ret).tag = "Err" /\ Get(ret).kind = "InvalidData"

\* C21: an extent without length that starts inside a recorded mdat resolves
\* to the bytes from its start to the end of that mdat's payload, and to the
\* end of the source buffer when no mdat contains its start; this is
\* computed without overflow also when the containing mdat is a size-0 box,
\* recorded with the length ToEofLength, and the result is then the bytes up
\* to the end of the source buffer.
C21_ToEndExtent ==
    (IsSome(parser) /\ call.op \in {"primary_data", "alpha_data", "tile_data"}
        /\ IsSome(CalledItem) /\ Get(CalledItem).construction_method = "File"
        /\ Len(Get(CalledItem).extents) = 1
        /\ Get(CalledItem).extents[1].kind = "ToEnd"
        /\ Get(CalledItem).extents[1].start <= Len(Get(parser).raw.bytes))
        => LET p == Get(parser)
               e == Get(CalledItem).extents[1]
               holders == { i \in 1..Len(p.mdat_bounds) : MdatContains(p.mdat_bounds[i], e.start) }
               m == p.mdat_bounds[CHOOSE i \in holders : TRUE]
               end == IF holders = {} \/ IsToEof(m) THEN Len(p.raw.bytes)
                      ELSE m.offset + m.length
           IN /\ IsSome(ret)
              /\ Get(ret) = Ok(Borrowed(SubSeq(p.raw.bytes, e.start + 1, end)))

\* what an accessor call returns, as a function of the parser, of the
\* arguments of the call and, for next(), of the reader's own iterator
AccessorResult(p, c, it) ==
    CASE c.op = "primary_data" -> Some(primary_data(p))
      [] c.op = "alpha_data" -> alpha_data(p)
      [] c.op = "tile_data" -> Some(tile_data(p, c.index))
      [] c.op = "frame" -> Some(frame(p, c.index))
      [] c.op = "frames" -> None
      [] c.op = "next" -> Some(next(Get(it), p).item)
      [] c.op = "to_avif_data" -> Some(to_avif_data(p))
      [] c.op \in MetadataAccessors -> Some(metadata(p, c.op))

EagerRead == Run(Start(overflow_checks, input, config, Unstoppable, "read_avif_with_config"))
FramesOf(data) == IF IsSome(data.animation) THEN Get(data.animation).frames ELSE << >>

\* C23: for a file that both read_avif and AvifParser::from_bytes accept,
\* to_avif_data() equals the read_avif result in the primary item bytes, in
\* the number of grid tiles and the bytes of each tile, and in the number of
\* animation frames and the bytes and duration_ms of each frame.
C23_ToAvifDataMatchesEager ==
    (ParseDone /\ IsSome(parser) /\ Succeeded(State) /\ call.op = "to_avif_data"
        /\ config = UnlimitedConfig /\ ~IsSome(stop.cancel_after)
        /\ Succeeded(EagerRead))
        => /\ IsOk(Get(ret))
           /\ Val(Get(ret)).primary_item = Val(Get(EagerRead.result)).primary_item
           /\ Val(Get(ret)).grid_tiles = Val(Get(EagerRead.result)).grid_tiles
           /\ FramesOf(Val(Get(ret))) = FramesOf(Val(Get(EagerRead.result)))

\* C24: under the same DecodeConfig, whenever read_avif_with_config
\* succeeds AvifParser::from_bytes_with_config succeeds too, with a primary
\* item of the same length for a file that is no grid and with the same tile
\* count for a grid; and whenever read_avif_with_config fails with an error
\* other than Unsupported while the parser constructor succeeds,
\* primary_data() fails and grid_tile_count() is 0.
C24_PathsAgree ==
    (ParseDone /\ ~IsEager(State) /\ IsSome(result) /\ ~IsSome(stop.cancel_after))
        => LET e == Get(EagerRead.result)
           IN /\ IsOk(e)
                 => /\ Succeeded(State)
                    /\ IF Val(e).grid_config = None
                       THEN /\ IsOk(primary_data(Get(parser)))
                            /\ Len(Val(primary_data(Get(parser))).bytes)
                                  = Len(Val(e).primary_item)
                       ELSE Len(Val(e).grid_tiles) = Len(Get(parser).tiles)
              /\ (e.tag = "Err" /\ e.kind # "Unsupported" /\ Succeeded(State))
                 => /\ ~IsOk(primary_data(Get(parser)))
                    /\ Len(Get(parser).tiles) = 0

(***************************************************************************)
(* C25: cancellation while animation frames are extracted                  *)
(***************************************************************************)
\* the token would return Cancelled at its next check
WouldCancel(token) == ~stop_passes(token)
\* the frames read_avif_with_config returned
ExtractedFrames ==
    IF IsSome(result) /\ IsOk(Get(result)) /\ IsSome(Val(Get(result)).animation)
    THEN Get(Val(Get(result)).animation).frames
    ELSE << >>
\* C25: while animation frames are extracted the stop token is consulted at
\* least once in every STOP_INTERVAL consecutive extractions: once the token
\* returns Cancelled, read_avif_with_config does not deliver more than
\* STOP_INTERVAL frames, and the frame of a FrameIterator that follows
\* STOP_INTERVAL earlier ones is Stopped(Cancelled)
C25_StopDuringFrames ==
    WouldCancel(stop) =>
        /\ (pc = "done" /\ api = "read_avif_with_config")
              => Len(ExtractedFrames) <= STOP_INTERVAL
        /\ (pc = "done" /\ call.op = "next" /\ call.index >= STOP_INTERVAL
                /\ IsSome(ret) /\ IsSome(Get(ret)))
              => Get(Get(ret)).tag = "Err" /\ Get(Get(ret)).kind = "Stopped"

(***************************************************************************)
(* SpecBox: the box iterators over the bytes of a file.  Positions and     *)
(* sizes are in bytes.  The fields of the boxes are taken to hold values   *)
(* their readers accept; what is modelled is how many bytes each reader    *)
(* consumes and where the next header is read.                             *)
(***************************************************************************)
MIN_LARGE_SIZE == 16
\* the size read_box_header gives a box whose size field is 0 (u64::MAX):
\* larger than every file of the domain
SIZE_TO_EOF == 100000
UUID_LEN == 16

\* A box as it lies in the file: a header (form size32, size64 or size0)
\* declaring `declared` bytes, `body` bytes its reader reads as fields (or
\* opaque payload), and the boxes that follow the body inside it.
BoxHeaderLen(form) == IF form = "size64" THEN MIN_LARGE_SIZE ELSE MIN_SIZE
RECURSIVE Extent(_), ExtentOfAll(_)
Extent(node) == BoxHeaderLen(node.form) + node.body + ExtentOfAll(node.inner)
ExtentOfAll(nodes) == IF nodes = << >> THEN 0 ELSE Extent(Head(nodes)) + ExtentOfAll(Tail(nodes))
Laid(name, form, body, inner) ==
    [name |-> name, form |-> form, body |-> body, inner |-> inner,
     declared |-> BoxHeaderLen(form) + body + ExtentOfAll(inner)]
Box(name, body, inner) == Laid(name, "size32", body, inner)
Declaring(node, size) == [node EXCEPT !.declared = size]

\* the box whose header starts at byte pos, if one does
RECURSIVE HeaderAt(_, _, _)
HeaderAt(nodes, base, pos) ==
    IF nodes = << >> \/ pos < base
    THEN None
    ELSE LET node == Head(nodes)
             end == base + Extent(node)
         IN IF pos = base THEN Some(node)
            ELSE IF pos < end
            THEN HeaderAt(node.inner, base + BoxHeaderLen(node.form) + node.body, pos)
            ELSE HeaderAt(Tail(nodes), end, pos)

BoxHeader(name, size, offset) == [name |-> name, size |-> size, offset |-> offset]
\* read_box_header on a source that holds `avail` more bytes and whose next
\* bytes are the header of `node`: the result and the bytes consumed.  A
\* read_exact that meets the end has consumed what there was.
read_box_header(node, avail) ==
    LET eof == [res |-> UnexpectedEOF, consumed |-> avail]
        size32 == CASE node.form = "size0" -> 0
                    [] node.form = "size64" -> 1
                    [] OTHER -> node.declared
        offset == BoxHeaderLen(node.form)
        size == IF size32 = 0 THEN SIZE_TO_EOF ELSE node.declared
        count == IF node.name = "uuid" /\ size >= offset + UUID_LEN
                 THEN Min(UUID_LEN, avail - offset) ELSE 0
    IN IF avail < MIN_SIZE THEN eof
       ELSE IF size32 = 1 /\ avail < MIN_LARGE_SIZE THEN eof
       ELSE IF size32 = 1 /\ node.declared < MIN_LARGE_SIZE
       THEN [res |-> Err("InvalidData", "malformed wide size"), consumed |-> MIN_LARGE_SIZE]
       ELSE IF size32 > 1 /\ size32 < MIN_SIZE
       THEN [res |-> Err("InvalidData", "malformed size"), consumed |-> MIN_SIZE]
       ELSE IF offset + count > size
       THEN [res |-> Panic("assertion failed: offset <= size"), consumed |-> offset + count]
       ELSE [res |-> Ok(BoxHeader(node.name, size, offset + count)),
             consumed |-> offset + count]
\* BoxIter::next_box: the end of the source in the header is the end of the
\* boxes
next_box(node, avail) ==
    LET r == read_box_header(node, avail)
    IN IF r.res = UnexpectedEOF
       THEN [res |-> Ok(None), consumed |-> r.consumed]
       ELSE IF IsOk(r.res)
       THEN [res |-> Ok(Some(Val(r.res))), consumed |-> r.consumed]
       ELSE r
\* check_parser_state: debug_assert_eq! panics in a build with debug
\* assertions
check_parser_state(header, limit, debug_assertions) ==
    IF limit = 0 \/ header.size = SIZE_TO_EOF THEN Ok(TRUE)
    ELSE IF debug_assertions THEN Panic("bad parser state bytes left")
    ELSE Err("InvalidData", "unread box content or bad parser sync")
\* the bytes a reader reads before it iterates over the child boxes
\* (read_avif_meta 2221, read_iinf 2314-2324, read_iref 2373)
FULLBOX_EXTRA == 4
Prefix(name) ==
    CASE name = "meta" -> FULLBOX_EXTRA
      [] name = "iinf" -> FULLBOX_EXTRA + 2
      [] name = "iref" -> FULLBOX_EXTRA
      [] OTHER -> 0
\* the fields read_mvhd, read_mdhd (version 0), read_infe (version 2),
\* read_auxc and read_ftyp read before they take the rest of the box
MVHD_FIELDS == 20
INFE_FIELDS == 12
FTYP_FIELDS == 8
BRAND_LEN == 4
\* the loops that call check_parser_state after each child (parse_raw 814,
\* read_avif_meta 2270, read_iinf 2336, read_iref 2402)
Checked(level) == level \in {"top", "meta", "iinf", "iref"}
\* what the loop of `level` does with a child named `name`
Handler(reader, name) ==
    LET level == reader.level
    IN CASE level = "top" /\ reader.last = None ->
              IF name = "ftyp" THEN "exact" ELSE "reject"
         [] level = "top" /\ reader.last # None ->
              IF name \in {"meta", "moov"} THEN "enter" ELSE "skip"
         [] level = "meta" ->
              CASE name \in {"iinf", "iref", "iprp"} -> "enter"
                [] name \in {"pitm", "iloc"} -> "fields"
                [] OTHER -> "skip"
         [] level = "iinf" -> IF name = "infe" THEN "fields_skip" ELSE "reject"
         [] level = "iref" -> "fields"
         [] level = "iprp" ->
              CASE name = "ipco" -> "enter"
                [] name = "ipma" -> "fields"
                [] OTHER -> "reject"
         [] level = "ipco" ->
              CASE name = "pixi" -> "fields_check"
                [] name = "auxC" -> "fields_skip"
                [] name \in {"ispe", "grid"} -> "fields"
                [] OTHER -> "skip"
         [] level = "moov" ->
              CASE name = "mvhd" -> "fields_skip"
                [] name = "trak" -> IF reader.found THEN "skip" ELSE "enter"
                [] OTHER -> "skip"
         [] level = "trak" -> IF name = "mdia" THEN "enter" ELSE "skip"
         [] level = "mdia" ->
              CASE name = "mdhd" -> "fields_skip"
                [] name = "minf" -> "enter"
                [] OTHER -> "skip"
         [] level = "minf" -> IF name = "stbl" THEN "enter" ELSE "skip"
         [] level = "stbl" ->
              IF name \in {"stts", "stsc", "stsz", "stco", "co64"} THEN "fields" ELSE "skip"
FieldsBeforeSkip(name) ==
    CASE name \in {"mvhd", "mdhd"} -> MVHD_FIELDS
      [] name = "infe" -> INFE_FIELDS
      [] OTHER -> FULLBOX_EXTRA

\* the iterator of one box (or of the file): the box it reads from, the
\* position its Take ends at, the child it last handled and whether a
\* track has been found (read_moov, read_mdia)
BoxIter(level, start, size, take_end) ==
    [level |-> level, start |-> start, size |-> size, take_end |-> take_end,
     last |-> None, found |-> FALSE]
\* the first position none of the Takes of the stack lets a read pass
RECURSIVE SourceEnd(_, _)
SourceEnd(stack, src_len) ==
    IF stack = << >> THEN src_len ELSE Min(Head(stack).take_end, SourceEnd(Tail(stack), src_len))
Top(stack) == stack[Len(stack)]
Pop(stack) == SubSeq(stack, 1, Len(stack) - 1)
ReplaceTop(stack, reader) == [stack EXCEPT ![Len(stack)] = reader]

Walk(pos, stack, res, got, branch) ==
    [pos |-> pos, stack |-> stack, res |-> res, ret |-> got, branch |-> branch]
\* the value a reader returns when its loop has ended: whether it found a
\* sample table
LoopValue(reader) ==
    CASE reader.level = "stbl" -> TRUE
      [] reader.level \in {"moov", "mdia"} -> reader.found
      [] OTHER -> FALSE
\* the reader of the box on top of the stack returns `value` to the loop
\* that called it: read_trak and read_minf return it at once (2824, 2865),
\* the checked loops call check_parser_state, the others go on
RECURSIVE return_to_caller(_, _, _, _, _, _)
return_to_caller(stack, pos, value, debug_assertions, got, branch) ==
    IF Len(stack) = 1
    THEN Walk(pos, << >>, Some(Ok(TRUE)), got, branch)
    ELSE LET child == Top(stack)
             caller == Top(Pop(stack))
             checked == check_parser_state(child, child.take_end - pos, debug_assertions)
             found == caller.found \/ (value /\ caller.level \in {"moov", "mdia"})
         IN IF caller.level \in {"trak", "minf"}
            THEN return_to_caller(Pop(stack), pos, value, debug_assertions, got, branch)
            ELSE IF Checked(caller.level) /\ ~IsOk(checked)
            THEN Walk(pos, Pop(stack), Some(checked), got, "unread")
            ELSE Walk(pos, ReplaceTop(Pop(stack), [caller EXCEPT !.found = found]),
                      None, got, branch)

\* the fields the reader of a child reads before it stops, skips the rest
\* or iterates
FieldsOf(kind, name, body) ==
    CASE kind = "enter" -> Prefix(name)
      [] kind = "fields_skip" -> FieldsBeforeSkip(name)
      [] kind = "exact" -> FTYP_FIELDS
      [] kind = "skip" -> 0
      [] OTHER -> body
\* the reader of the child has stopped at `stops`: read_pixi checks itself
\* (2549), the checked loops check each child
after_child(debug_assertions, handled, got, h, start, stops, self_check) ==
    LET after == check_parser_state(h, start + h.size - stops, debug_assertions)
    IN IF (self_check \/ Checked(Top(handled).level)) /\ ~IsOk(after)
       THEN Walk(stops, handled, Some(after), got, "unread")
       ELSE Walk(stops, handled, None, got, "leaf")
\* the child with header h, whose content starts at `content` and of which
\* the source holds the bytes up to `last`, is given to its reader
read_child(debug_assertions, handled, got, h, start, content, last, kind, fields) ==
    IF kind = "reject"
    THEN Walk(content, handled, Some(Err("InvalidData", "unexpected box")), got, "reject")
    ELSE IF content + fields > last
    THEN Walk(last, handled, Some(UnexpectedEOF), got, "short")
    ELSE IF kind = "exact" /\ (start + h.size - content - FTYP_FIELDS) % BRAND_LEN # 0
    THEN Walk(content + fields, handled, Some(Err("InvalidData", "invalid ftyp size")), got,
              "short")
    ELSE IF kind = "exact" /\ start + h.size > last
    THEN Walk(last, handled, Some(UnexpectedEOF), got, "short")
    ELSE IF kind = "enter"
    THEN Walk(content + fields,
              Append(handled, BoxIter(h.name, start, h.size, start + h.size)), None, got,
              "enter")
    ELSE after_child(debug_assertions, handled, got, h, start,
                     IF kind \in {"skip", "fields_skip", "exact"} THEN last
                     ELSE content + fields,
                     kind = "fields_check")
handle_child(debug_assertions, stack, end, got, h, start, content, body) ==
    read_child(debug_assertions,
               ReplaceTop(stack, [Top(stack) EXCEPT
                                    !.last = Some([start |-> start, size |-> h.size])]),
               got, h, start, content, Min(start + h.size, end),
               Handler(Top(stack), h.name),
               FieldsOf(Handler(Top(stack), h.name), h.name, body))
\* the loop body around next_box (785, 2235, 2329, 2379, 2412, 2516, 2750,
\* 2788, 2822, 2838, 2863)
after_next_box(debug_assertions, stack, end, pos, r, body) ==
    IF ~IsOk(r.res)
    THEN Walk(pos + r.consumed, stack, Some(r.res), Some(r.res), "bad_header")
    ELSE IF Val(r.res) = None
    THEN return_to_caller(stack, pos + r.consumed, LoopValue(Top(stack)), debug_assertions,
                          Some(r.res), "none")
    ELSE handle_child(debug_assertions, stack, end, Some(r.res), Get(Val(r.res)), pos,
                      pos + r.consumed, body)
\* the box laid at pos; no header is read where none is laid unless the
\* source has ended
NodeAt(nodes, pos) ==
    LET at == HeaderAt(nodes, 0, pos)
    IN IF IsSome(at) THEN Get(at) ELSE Box("", 0, << >>)
read_at(debug_assertions, stack, end, pos, node) ==
    after_next_box(debug_assertions, stack, end, pos, next_box(node, end - pos), node.body)
\* one turn of the loop of the iterator on top of the stack: next_box and
\* the handling of the child it returns
box_iter_step(file, debug_assertions, pos, stack) ==
    read_at(debug_assertions, stack, SourceEnd(stack, file.len), pos, NodeAt(file.boxes, pos))

\* the files: a layout of boxes and the length the file is cut to
FtypBytes == Box("ftyp", FTYP_FIELDS, << >>)
Free == Box("free", 0, << >>)
Stbl == Box("stbl", 0, << Box("stts", 8, << >>), Box("stsz", 12, << >>) >>)
BoxLayouts ==
    { << >>,
      << FtypBytes, Box("mdat", 2, << >>) >>,
      << Box("mdat", 2, << >>), FtypBytes >>,
      << FtypBytes, Laid("mdat", "size64", 2, << >>), Free >>,
      << FtypBytes, Free, Laid("mdat", "size0", 2, << >>) >>,
      << FtypBytes, Declaring(Free, 4), Free >>,
      << FtypBytes, Declaring(Laid("free", "size64", 0, << >>), MIN_SIZE), Free >>,
      << FtypBytes, Box("uuid", UUID_LEN, << >>), Box("uuid", 0, << >>) >>,
      << Box("ftyp", FTYP_FIELDS + 2, << >>) >>,
      << FtypBytes, Box("meta", Prefix("meta"), << Box("pitm", 6, << >>), Box("idat", 2, << >>) >>),
         Free >>,
      << FtypBytes, Box("meta", Prefix("meta"), << Box("pitm", 6, << Free >>) >>) >>,
      << FtypBytes,
         Box("meta", Prefix("meta"),
             << Box("iinf", Prefix("iinf"), << Box("infe", INFE_FIELDS, << >>),
                                  Box("infe", INFE_FIELDS + 1, << >>) >>),
                Box("iref", Prefix("iref"), << Box("dimg", 6, << >>), Box("auxl", 6, << >>) >>) >>) >>,
      << FtypBytes,
         Box("meta", Prefix("meta"), << Box("iinf", Prefix("iinf"), << Free >>) >>) >>,
      << FtypBytes,
         Box("meta", Prefix("meta"),
             << Box("iprp", 0, << Box("ipco", 0, << Box("ispe", 12, << >>),
                                                    Box("pixi", 8, << >>),
                                                    Box("auxC", 6, << >>), Free >>),
                                  Box("ipma", 8, << >>) >>) >>) >>,
      << FtypBytes,
         Box("meta", Prefix("meta"),
             << Box("iprp", 0, << Box("ipco", 0, << Box("ispe", 12, << Free >>),
                                                    Box("pixi", 8, << Free >>) >>) >>) >>) >>,
      << FtypBytes,
         Box("meta", Prefix("meta"), << Box("iprp", 0, << Free >>) >>) >>,
      << FtypBytes,
         Box("moov", 0, << Box("mvhd", MVHD_FIELDS, << >>),
                           Box("trak", 0, << Box("tkhd", 4, << >>),
                                             Box("mdia", 0, << Box("mdhd", MVHD_FIELDS, << >>),
                                                               Box("minf", 0, << Stbl >>) >>) >>),
                           Box("trak", 0, << Free >>) >>) >>,
      << FtypBytes,
         Box("moov", 0, << Box("trak", 0, << Box("mdia", 0, << Box("minf", 0, << Stbl, Free >>),
                                                               Box("hdlr", 4, << >>) >>),
                                             Box("edts", 4, << >>) >>) >>) >>,
      << FtypBytes,
         Box("moov", 0, << Box("trak", 0, << Box("mdia", 0,
                << Box("minf", 0, << Box("stbl", 0, << Box("stts", 8, << Free >>) >>) >>) >>) >>) >>) >> }
BoxFiles ==
    UNION { { [boxes |-> layout, len |-> n] : n \in 0..ExtentOfAll(layout) } :
            layout \in BoxLayouts }

InitBox ==
    /\ overflow_checks = FALSE
    /\ input \in BoxFiles
    /\ config \in { [debug_assertions |-> b] : b \in BOOLEAN }
    /\ stop = Unstoppable
    /\ api = "parse_raw"
    /\ pc = "next_box"
    /\ iter = 0
    /\ meta = None
    /\ mdats = << >>
    /\ animation_data = None
    /\ tracker = NewTracker
    /\ tiles_with_index = << >>
    /\ context = << BoxIter("top", 0, SIZE_TO_EOF, SIZE_TO_EOF) >>
    /\ parser = None
    /\ result = None
    /\ call = NoCall
    /\ ret = None
    /\ frames_iter = None

\* the turn the iterator on top of the stack takes next
BoxTurn == box_iter_step(input, config.debug_assertions, iter, context)
\* the box whose header the turn reads, and the bytes the source holds
BoxRead(pos, stack) ==
    LET at == HeaderAt(input.boxes, 0, pos)
    IN [op |-> "next_box", index |-> pos,
        avail |-> SourceEnd(stack, input.len) - pos,
        header |-> IF IsSome(at) THEN BoxHeaderLen(Get(at).form) ELSE MIN_SIZE]
BoxBecomes(branch) ==
    \E turn \in { BoxTurn } :
        /\ turn.branch = branch
        /\ iter' = turn.pos
        /\ context' = turn.stack
        /\ result' = turn.res
        /\ ret' = turn.ret
        /\ call' = BoxRead(iter, context)
        /\ pc' = IF IsSome(turn.res) THEN "done" ELSE "next_box"
        /\ UNCHANGED <<overflow_checks, input, config, stop, api, meta, mdats,
                       animation_data, tracker, tiles_with_index, parser, frames_iter>>

BoxHeaderError == pc = "next_box" /\ BoxBecomes("bad_header")
BoxesEnd == pc = "next_box" /\ BoxBecomes("none")
BoxRejected == pc = "next_box" /\ BoxBecomes("reject")
BoxShort == pc = "next_box" /\ BoxBecomes("short")
BoxEnter == pc = "next_box" /\ BoxBecomes("enter")
BoxUnread == pc = "next_box" /\ BoxBecomes("unread")
BoxHandled == pc = "next_box" /\ BoxBecomes("leaf")

NextBox ==
    \/ BoxHeaderError \/ BoxesEnd \/ BoxRejected \/ BoxShort \/ BoxEnter \/ BoxUnread
    \/ BoxHandled

SpecBox == InitBox /\ [][NextBox]_vars

(***************************************************************************)
(* Claims on SpecBox                                                       *)
(***************************************************************************)
\* where the child c of the iterator ends: at start + size, a box of size 0
\* at the end of what encloses it
ChildEnd(c) == IF c.size = SIZE_TO_EOF THEN SourceEnd(context, input.len) ELSE c.start + c.size
\* C26: once a child box has been handled and the parse has not failed, the
\* next header the enclosing iterator reads starts at the child's end
C26_NextHeaderAtChildEnd ==
    (pc = "next_box" /\ IsSome(Top(context).last))
        => iter = ChildEnd(Get(Top(context).last))

\* C27: next_box returns no box only when the source holds no byte of a next
\* header; when it holds some but not all of the header's bytes the result
\* is UnexpectedEOF and the parse fails with it
C27_TruncatedHeader ==
    (call.op = "next_box" /\ IsSome(ret))
        => /\ Get(ret) = Ok(None) => call.avail = 0
           /\ (call.avail > 0 /\ call.avail < call.header)
                 => Get(ret) = UnexpectedEOF /\ result = Some(UnexpectedEOF)

(***************************************************************************)
(* SpecIloc: read_iloc on one iloc box                                     *)
(***************************************************************************)
IlocOffsets == {0, 1, U64_MAX - 1, U64_MAX}
IlocLengths == {0, 1, U64_MAX}
IlocExtentFields == { IlocExtent(o, l) : o \in IlocOffsets, l \in IlocLengths }
IlocExtentLists ==
    { << e >> : e \in IlocExtentFields } \cup
    { << IlocExtent(1, 1), e >> : e \in IlocExtentFields } \cup
    { << e, IlocExtent(1, 0) >> : e \in IlocExtentFields } \cup { << >> }
\* the three field widths; 2 is a width no IlocFieldSize stands for
IlocWidths ==
    (IlocFieldSizes \X IlocFieldSizes \X IlocFieldSizes) \cup { << 2, FIELD_BYTES, FIELD_BYTES >> }
IlocBoxes ==
    { SizedIlocBox(IlocBox(v, << IlocItem(1, m, base, extents) >>), w[1], w[2], w[3]) :
        v \in {0, 1}, m \in {0, 1}, base \in IlocOffsets, extents \in IlocExtentLists,
        w \in IlocWidths }

InitIloc ==
    /\ overflow_checks = FALSE
    /\ \E b \in IlocBoxes : input = << b >>
    /\ config = UnlimitedConfig
    /\ stop = Unstoppable
    /\ api = "read_iloc"
    /\ pc = "iloc"
    /\ iter = 0
    /\ meta = None
    /\ mdats = << >>
    /\ animation_data = None
    /\ tracker = NewTracker
    /\ tiles_with_index = << >>
    /\ context = None
    /\ parser = None
    /\ result = None
    /\ call = NoCall
    /\ ret = None
    /\ frames_iter = None

ReadIloc ==
    /\ pc = "iloc"
    /\ result' = Some(read_iloc(input[1]))
    /\ pc' = "done"
    /\ iter' = iter + 1
    /\ UNCHANGED <<overflow_checks, input, config, stop, api, meta, mdats, animation_data,
                   tracker, tiles_with_index, context, parser, call, ret, frames_iter>>

NextIloc == ReadIloc

SpecIloc == InitIloc /\ [][NextIloc]_vars

(***************************************************************************)
(* Claims on SpecIloc                                                      *)
(***************************************************************************)
\* the value of a field of the box: 0 when its declared width is 0
FieldValue(width, field) == IF width = 0 THEN 0 ELSE field
ExtentStart(b, item, e) ==
    FieldValue(b.base_offset_size, item.base_offset) + FieldValue(b.offset_size, e.extent_offset)
ExtentLength(b, e) == FieldValue(b.length_size, e.extent_length)
\* one of the sums of the extent exceeds 2^64 - 1
ExtentOverflows(b, item, e) ==
    \/ ExtentStart(b, item, e) > U64_MAX
    \/ ExtentLength(b, e) > 0 /\ ExtentStart(b, item, e) + ExtentLength(b, e) > U64_MAX
IlocRead == pc = "done" /\ api = "read_iloc" /\ IsSome(result)
\* read_iloc has come to the extents of the item
ExtentsReached(b) ==
    /\ {b.offset_size, b.length_size, b.base_offset_size} \subseteq IlocFieldSizes
    /\ Len(b.items[1].extents) >= 1
\* C28: every extent read from iloc starts at base_offset + extent_offset and
\* is recorded as [start, start + extent_length) when extent_length > 0 and
\* as [start, unbounded) when it is 0, a field of width 0 reading as 0; if a
\* sum exceeds 2^64 - 1 read_iloc fails with InvalidData, so every bounded
\* range recorded has start < end
C28_IlocExtents ==
    (IlocRead /\ ExtentsReached(input[1]))
        => LET b == input[1]
               item == b.items[1]
               r == Get(result)
           IN IF \E i \in 1..Len(item.extents) : ExtentOverflows(b, item, item.extents[i])
              THEN r.tag = "Err" /\ r.kind = "InvalidData"
              ELSE /\ IsOk(r)
                   /\ Len(Val(r)[1].extents) = Len(item.extents)
                   /\ \A i \in 1..Len(item.extents) :
                        LET e == item.extents[i]
                            range == Val(r)[1].extents[i]
                        IN /\ range.start = ExtentStart(b, item, e)
                           /\ IF ExtentLength(b, e) > 0
                              THEN /\ range.kind = "WithLength"
                                   /\ range.end = range.start + ExtentLength(b, e)
                                   /\ range.start < range.end
                                   /\ range.end <= U64_MAX
                              ELSE range.kind = "ToEnd"
\* an item read with a bounded and an unbounded extent, the offset field of
\* width 0 and a base offset that leaves room for one byte only
C28_Witness ==
    /\ IlocRead /\ IsOk(Get(result))
    /\ input[1].offset_size = 0
    /\ input[1].items[1].base_offset = U64_MAX - 1
    /\ Len(Val(Get(result))[1].extents) = 2
    /\ Val(Get(result))[1].extents[1] = WithLength(U64_MAX - 1, U64_MAX)
    /\ Val(Get(result))[1].extents[2].kind = "ToEnd"

(***************************************************************************)
(* C29: the duration of a frame                                            *)
(***************************************************************************)
\* the samples the time_to_sample entries before entry i cover
RECURSIVE SamplesBefore(_, _)
SamplesBefore(st, i) ==
    IF i <= 1 THEN 0 ELSE SamplesBefore(st, i - 1) + st.time_to_sample[i - 1].sample_count
\* the first entry whose cumulative sample_count exceeds k, or 0
CoveringEntry(st, k) ==
    LET covering == { i \in 1..Len(st.time_to_sample) :
                        SamplesBefore(st, i) + st.time_to_sample[i].sample_count > k }
    IN IF covering = {} THEN 0 ELSE CHOOSE i \in covering : \A j \in covering : i <= j
\* floor(sample_delta * 1000 / media_timescale) of that entry
ExpectedDuration(anim, k) ==
    LET i == CoveringEntry(anim.sample_table, k)
    IN IF i = 0 \/ anim.media_timescale = 0 THEN 0
       ELSE (anim.sample_table.time_to_sample[i].sample_delta * MILLIS)
                \div anim.media_timescale
FrameReturned ==
    /\ pc = "done" /\ IsSome(parser) /\ call.op = "frame"
    /\ IsSome(ret) /\ IsOk(Get(ret))
\* C29: the duration_ms of frame(k) is floor(sample_delta * 1000 /
\* media_timescale) of the first time_to_sample entry whose cumulative
\* sample_count exceeds k, not reduced modulo 2^32, and 0 when
\* media_timescale is 0 or no entry covers k
C29_FrameDuration ==
    FrameReturned
        => Val(Get(ret)).duration_ms
             = ExpectedDuration(Get(Get(parser).animation_data), call.index)

(***************************************************************************)
(* SpecTracker: reserve and release calls on one ResourceTracker           *)
(***************************************************************************)
\* the calls made on one tracker
MaxCalls == 4
TrackerBytes == {0, 1, PeakLimit, U64_MAX - 1, U64_MAX}
TrackerLimits == { None, Some(0), Some(PeakLimit), Some(U64_MAX) }

InitTracker ==
    /\ overflow_checks = FALSE
    /\ input = << >>
    /\ \E limit \in TrackerLimits : config = [UnlimitedConfig EXCEPT !.peak_memory_limit = limit]
    /\ stop = Unstoppable
    /\ api = "ResourceTracker"
    /\ pc = "tracker"
    /\ iter = 0
    /\ meta = None
    /\ mdats = << >>
    /\ animation_data = None
    /\ tracker = NewTracker
    /\ tiles_with_index = << >>
    /\ context = << >>
    /\ parser = None
    /\ result = None
    /\ call = NoCall
    /\ ret = None
    /\ frames_iter = None

\* context keeps the calls made so far
Reserve ==
    /\ pc = "tracker" /\ Len(context) < MaxCalls
    /\ \E bytes \in TrackerBytes :
        /\ tracker' = reserved(tracker, bytes)
        /\ ret' = Some(reserve(config, tracker, bytes))
        /\ call' = [op |-> "reserve", index |-> bytes]
        /\ context' = Append(context, [op |-> "reserve", bytes |-> bytes])
    /\ UNCHANGED <<overflow_checks, input, config, stop, api, pc, iter, meta, mdats,
                   animation_data, tiles_with_index, parser, result, frames_iter>>

Release ==
    /\ pc = "tracker" /\ Len(context) < MaxCalls
    /\ \E bytes \in TrackerBytes :
        /\ tracker' = release(tracker, bytes)
        /\ ret' = None
        /\ call' = [op |-> "release", index |-> bytes]
        /\ context' = Append(context, [op |-> "release", bytes |-> bytes])
    /\ UNCHANGED <<overflow_checks, input, config, stop, api, pc, iter, meta, mdats,
                   animation_data, tiles_with_index, parser, result, frames_iter>>

NextTracker == Reserve \/ Release

SpecTracker == InitTracker /\ [][NextTracker]_vars

(***************************************************************************)
(* Claims on SpecTracker                                                   *)
(***************************************************************************)
\* the total of the first n calls: reserved minus released bytes, kept
\* within 0 and 2^64 - 1 at every call
RECURSIVE RunningTotal(_, _)
RunningTotal(calls, n) ==
    IF n = 0 THEN 0
    ELSE IF calls[n].op = "reserve"
         THEN Min(RunningTotal(calls, n - 1) + calls[n].bytes, U64_MAX)
         ELSE Max(RunningTotal(calls, n - 1) - calls[n].bytes, 0)
\* the largest total right after a reserve among the calls
LargestAfterReserve(calls) ==
    LET totals == { RunningTotal(calls, n) : n \in { i \in 1..Len(calls) : calls[i].op = "reserve" } }
    IN IF totals = {} THEN 0 ELSE CHOOSE t \in totals : \A u \in totals : u <= t
TrackerState ==
    /\ tracker.current_memory = RunningTotal(context, Len(context))
    /\ tracker.peak_memory = LargestAfterReserve(context)
    /\ tracker.peak_memory >= tracker.current_memory
    /\ (call.op = "reserve" /\ IsSome(ret))
          => Get(ret) = IF /\ IsSome(config.peak_memory_limit)
                           /\ tracker.peak_memory > Get(config.peak_memory_limit)
                        THEN ResourceLimitExceeded("peak memory limit exceeded")
                        ELSE Ok(TRUE)
\* C30: over any sequence of reserve and release calls current_memory is the
\* saturating running total of reserved minus released bytes, peak_memory is
\* the largest current_memory after a reserve, peak_memory >= current_memory
\* always, peak_memory never decreases, and reserve fails with
\* ResourceLimitExceeded("peak memory limit exceeded") exactly when
\* peak_memory exceeds a configured limit, never without a limit
C30_Tracker ==
    /\ [](api = "ResourceTracker" => TrackerState)
    /\ [][api = "ResourceTracker" => tracker'.peak_memory >= tracker.peak_memory]_vars
\* a reserve refused after an earlier release, the total below the peak
C30_Witness ==
    /\ api = "ResourceTracker" /\ call.op = "reserve"
    /\ ret = Some(ResourceLimitExceeded("peak memory limit exceeded"))
    /\ \E i \in 1..Len(context) : context[i].op = "release" /\ context[i].bytes > 0
    /\ tracker.current_memory > 0
    /\ tracker.current_memory < tracker.peak_memory

====
